---- MODULE Spec2Model ----
(***************************************************************************)
(* Flash_Narrative: the mention aggregation and KPI engine of analysis.py. *)
(*                                                                         *)
(* Python strings are sequences of one-character strings, so that lower(), *)
(* substring containment, the \b regular expressions and the code-point    *)
(* order used by sorted() are computed, not assumed.  Python values of     *)
(* varying type (a dict value that may be missing, None, a number, a       *)
(* string or a list) are tagged records:                                   *)
(*   [t |-> "absent"]  the key is not in the dict                          *)
(*   [t |-> "none"]    None                                                *)
(*   [t |-> "str", s |-> chars]     [t |-> "int", i |-> n]                 *)
(*   [t |-> "list", l |-> seq of strings]    [t |-> "nan"]                 *)
(*   [t |-> "ts", h |-> n]  a datetime, in hours since the epoch           *)
(***************************************************************************)
EXTENDS Integers, Sequences, FiniteSets, TLC

\* ---------------------------------------------------------------- strings

UpperChars ==
  << "A","B","C","D","E","F","G","H","I","J","K","L","M",
     "N","O","P","Q","R","S","T","U","V","W","X","Y","Z" >>

LowerChars ==
  << "a","b","c","d","e","f","g","h","i","j","k","l","m",
     "n","o","p","q","r","s","t","u","v","w","x","y","z" >>

DigitChars ==
  << "0","1","2","3","4","5","6","7","8","9" >>

\* The characters of the model in code-point order (what str comparison uses).
CodeOrder ==
  << " ", "!", "#", ",", "-", ".", "/" >> \o DigitChars \o UpperChars \o << "_" >> \o LowerChars

Range(f) ==
  { f[i] : i \in DOMAIN f }

OrdOf ==
  [c \in Range(CodeOrder) |-> CHOOSE i \in DOMAIN CodeOrder : CodeOrder[i] = c]

\* ord(c), up to the order it induces
Ord(c) ==
  OrdOf[c]

\* str.lower() of each upper-case letter
LowerOfUpper ==
  [c \in Range(UpperChars) |->
     LowerChars[CHOOSE i \in DOMAIN UpperChars : UpperChars[i] = c]]

\* str.lower(), one character
LowerChar(c) ==
  IF c \in DOMAIN LowerOfUpper THEN LowerOfUpper[c] ELSE c

\* str.lower()
Lower(s) ==
  [i \in 1..Len(s) |-> LowerChar(s[i])]

\* \w of the re module
WordChars ==
  Range(UpperChars) \cup Range(LowerChars) \cup Range(DigitChars) \cup {"_"}

IsWordChar(c) ==
  c \in WordChars

\* a < b for Python strings: lexicographic on code points
RECURSIVE StrLess(_, _)
StrLess(a, b) ==
  IF b = <<>> THEN FALSE
  ELSE IF a = <<>> THEN TRUE
  ELSE IF a[1] = b[1] THEN StrLess(Tail(a), Tail(b))
  ELSE Ord(a[1]) < Ord(b[1])

\* `kw in text` for Python strings
Contains(text, kw) ==
  \E i \in 0..(Len(text) - Len(kw)) :
    \A j \in 1..Len(kw) : text[i + j] = kw[j]

\* \b at position p of text (between text[p] and text[p+1])
WordBoundary(text, p) ==
  LET before == p >= 1 /\ IsWordChar(text[p])
      after  == p < Len(text) /\ IsWordChar(text[p + 1])
  IN  before # after

\* re.search(r'\b' + re.escape(kw) + r'\b', text) is not None
WordSearch(kw, text) ==
  \E i \in 0..(Len(text) - Len(kw)) :
    /\ \A j \in 1..Len(kw) : text[i + j] = kw[j]
    /\ WordBoundary(text, i)
    /\ WordBoundary(text, i + Len(kw))

\* ------------------------------------------------- tagged Python values

Absent ==
  [t |-> "absent"]

None ==
  [t |-> "none"]

NaN ==
  [t |-> "nan"]

Str(s) ==
  [t |-> "str", s |-> s]

Num(n) ==
  [t |-> "int", i |-> n]

List(l) ==
  [t |-> "list", l |-> l]

Ts(h) ==
  [t |-> "ts", h |-> h]

\* a string that dateutil parses, to hour h
Date(h) ==
  [t |-> "date", h |-> h]

\* an aware datetime: wall clock h at UTC offset off, both in hours
TsAt(h, off) ==
  [t |-> "tsz", h |-> h, off |-> off]

\* a string that dateutil parses to wall clock h with UTC offset off
DateAt(h, off) ==
  [t |-> "datez", h |-> h, off |-> off]

\* a label: a string the code only compares for equality
Sym(s) ==
  [t |-> "sym", s |-> s]

\* dict.get(key, default) on a field value
Get(v, default) ==
  IF v.t = "absent" THEN default ELSE v

\* bool(v): the truth value Python gives a value
Truthy(v) ==
  CASE v.t = "absent" -> FALSE
    [] v.t = "none" -> FALSE
    [] v.t = "str" -> v.s # <<>>
    [] v.t = "sym" -> v.s # ""
    [] v.t = "int" -> v.i # 0
    [] v.t = "list" -> v.l # <<>>
    [] OTHER -> TRUE

\* ------------------------------------------ analyze_sentiment_keywords

positive_kws ==
  << <<"g","o","o","d">>, <<"g","r","e","a","t">>, <<"e","x","c","e","l","l","e","n","t">>,
     <<"p","o","s","i","t","i","v","e">>, <<"l","o","v","e">>, <<"a","w","e","s","o","m","e">>,
     <<"b","e","s","t">>, <<"h","a","p","p","y">>, <<"l","i","k","e">>,
     <<"a","m","a","z","i","n","g">>, <<"s","u","p","e","r","b">>,
     <<"f","a","n","t","a","s","t","i","c">>, <<"r","e","c","o","m","m","e","n","d">>,
     <<"p","e","r","f","e","c","t">>, <<"t","h","r","i","l","l","e","d">>,
     <<"d","e","l","i","g","h","t","e","d">>, <<"s","a","t","i","s","f","i","e","d">>,
     <<"e","a","s","y">>, <<"s","e","a","m","l","e","s","s">>, <<"w","i","n","s">>, <<"w","o","n">>,
     <<"a","w","a","r","d">>, <<"r","e","c","o","g","n","i","t","i","o","n">>,
     <<"h","o","n","o","u","r","e","d">>, <<"n","a","m","e","d"," ","a","s">>,
     <<"r","a","n","k","e","d"," ","#","1">>, <<"l","e","a","d","i","n","g">>,
     <<"t","o","p","-","t","i","e","r">>, <<"s","u","c","c","e","s","s","f","u","l">>,
     <<"s","u","c","c","e","s","s","f","u","l","l","y">>,
     <<"o","v","e","r","s","u","b","s","c","r","i","b","e","d">>,
     <<"e","x","c","e","e","d","s"," ","e","x","p","e","c","t","a","t","i","o","n","s">>,
     <<"c","o","n","f","i","d","e","n","c","e">>, <<"g","r","o","w","s">>,
     <<"g","r","o","w","t","h">>, <<"r","i","s","e">>, <<"i","n","c","r","e","a","s","e">>,
     <<"e","x","p","a","n","s","i","o","n">>, <<"a","c","c","e","l","e","r","a","t","e">>,
     <<"b","o","o","s","t">>, <<"o","u","t","p","e","r","f","o","r","m","s">>,
     <<"l","a","u","n","c","h","e","s">>, <<"u","n","v","e","i","l","s">>,
     <<"i","n","t","r","o","d","u","c","e","s">>,
     <<"n","e","w"," ","i","n","i","t","i","a","t","i","v","e">>,
     <<"n","e","w"," ","p","r","o","d","u","c","t">>,
     <<"n","e","w"," ","f","e","a","t","u","r","e">>, <<"p","r","o","f","i","t">>,
     <<"p","r","o","f","i","t","s">>, <<"p","r","o","f","i","t","a","b","l","e">>,
     <<"s","t","r","o","n","g"," ","p","e","r","f","o","r","m","a","n","c","e">>,
     <<"r","o","b","u","s","t">>, <<"s","t","r","o","n","g","e","r">>,
     <<"u","p","g","r","a","d","e","s">>,
     <<"s","t","a","b","l","e"," ","o","u","t","l","o","o","k">>,
     <<"r","e","a","f","f","i","r","m","s">>, <<"c","o","m","m","i","t","m","e","n","t">>,
     <<"s","t","r","e","n","g","t","h","e","n","i","n","g">> >>

appreciation_kws ==
  << <<"t","h","a","n","k">>, <<"t","h","a","n","k","s">>, <<"g","r","a","t","e","f","u","l">>,
     <<"k","u","d","o","s">>, <<"c","o","n","g","r","a","t","u","l","a","t","i","o","n","s">>,
     <<"c","o","n","g","r","a","t","s">>, <<"p","r","o","p","s">>, <<"h","e","l","p","f","u","l">>,
     <<"a","p","p","r","e","c","i","a","t","e">>,
     <<"a","p","p","r","e","c","i","a","t","i","o","n">>, <<"l","a","u","d","s">>,
     <<"c","o","m","m","e","n","d","s">>, <<"p","r","a","i","s","e","d">>,
     <<"l","e","g","a","c","y">>, <<"h","o","n","o","r","i","n","g">>,
     <<"e","m","p","o","w","e","r">>, <<"s","u","p","p","o","r","t">>,
     <<"c","h","a","m","p","i","o","n","s">>, <<"d","o","n","a","t","e","s">>,
     <<"d","o","n","a","t","i","o","n">>, <<"c","s","r">>, <<"e","s","g">>,
     <<"c","o","m","m","u","n","i","t","y">>, <<"f","o","u","n","d","a","t","i","o","n">>,
     <<"s","p","o","n","s","o","r","s">> >>

negative_kws ==
  << <<"b","a","d">>, <<"p","o","o","r">>, <<"t","e","r","r","i","b","l","e">>,
     <<"n","e","g","a","t","i","v","e">>, <<"h","a","t","e">>, <<"a","w","f","u","l">>,
     <<"w","o","r","s","t">>, <<"s","a","d">>, <<"d","i","s","l","i","k","e">>,
     <<"b","r","o","k","e","n">>, <<"d","i","s","a","p","p","o","i","n","t","e","d">>,
     <<"f","r","u","s","t","r","a","t","e","d">>, <<"h","o","r","r","i","b","l","e">>,
     <<"u","s","e","l","e","s","s">>, <<"e","m","b","a","r","r","a","s","s","i","n","g">>,
     <<"f","a","i","l">>, <<"f","a","i","l","e","d">>, <<"i","s","s","u","e">>,
     <<"p","r","o","b","l","e","m">>, <<"a","v","o","i","d">>, <<"s","c","a","m">>,
     <<"f","r","a","u","d">>, <<"f","r","a","u","d","u","l","e","n","t">>,
     <<"a","l","l","e","g","a","t","i","o","n">>, <<"a","l","l","e","g","e","s">>,
     <<"d","o","w","n","t","i","m","e">>, <<"g","l","i","t","c","h">>,
     <<"g","l","i","t","c","h","e","s">>, <<"c","r","a","s","h","e","s">>, <<"d","o","w","n">>,
     <<"o","u","t","a","g","e">>, <<"u","n","a","u","t","h","o","r","i","z","e","d">>,
     <<"f","i","n","e","d">>, <<"s","a","n","c","t","i","o","n","e","d">>,
     <<"p","e","n","a","l","t","y">>, <<"l","a","w","s","u","i","t">>, <<"c","o","u","r","t">>,
     <<"a","r","r","e","s","t">>, <<"e","f","c","c">>, <<"c","r","i","s","i","s">>,
     <<"v","u","l","n","e","r","a","b","i","l","i","t","i","e","s">>,
     <<"t","h","r","e","a","t","s">>, <<"r","i","s","k">>, <<"s","t","i","f","l","i","n","g">>,
     <<"r","i","f","t">>, <<"l","o","s","s">>, <<"l","o","s","s","e","s">>,
     <<"d","e","c","l","i","n","e">>, <<"d","i","p">>, <<"d","r","o","p">>, <<"s","l","u","m","p">>,
     <<"e","r","o","s","i","o","n">>,
     <<"u","n","d","e","r","s","u","b","s","c","r","i","b","e","d">>,
     <<"c","o","m","p","l","a","i","n","t">>, <<"c","o","m","p","l","a","i","n","t","s">>,
     <<"f","u","m","e">>, <<"l","a","m","e","n","t","s">>, <<"o","u","t","c","r","y">>,
     <<"s","l","a","m","s">> >>

anger_kws ==
  << <<"a","n","g","r","y">>, <<"f","u","r","i","o","u","s">>, <<"r","a","g","e">>, <<"m","a","d">>,
     <<"o","u","t","r","a","g","e">>, <<"p","i","s","s","e","d">>, <<"f","u","m","i","n","g">>,
     <<"l","i","v","i","d">>, <<"w","o","r","s","t","!">>, <<"s","t","e","a","l","i","n","g">>,
     <<"t","h","i","e","v","e","s">>, <<"s","c","a","m","m","e","d">>,
     <<"d","i","s","g","u","s","t","e","d">> >>

mixed_kws ==
  << <<"b","u","t">>, <<"h","o","w","e","v","e","r">>, <<"a","l","t","h","o","u","g","h">>,
     <<"y","e","t">>, <<"s","t","i","l","l">>, <<"d","e","s","p","i","t","e">>,
     <<"w","h","i","l","e">>, <<"t","h","o","u","g","h">> >>


CountMatches(kws, text_lower) ==
  Cardinality({ i \in DOMAIN kws : WordSearch(kws[i], text_lower) })

\* str(text) of a value that is a string already, or None
PyStr(v) ==
  IF v.t = "str" THEN v.s ELSE <<"N","o","n","e">>

\* Mutant of SentimentOfCounts: a connective alone does not make a text mixed.
SentimentOfCounts_NoConnective(pos_count, neg_count, anger_count, app_count, has_mixed) ==
  IF anger_count > 0 THEN "anger"
  ELSE IF pos_count > 0 /\ neg_count > 0 THEN "mixed"
  ELSE IF neg_count > 0 THEN "negative"
  ELSE IF pos_count > 0 THEN "positive"
  ELSE IF app_count > 0 THEN "appreciation"
  ELSE "neutral"

\* the decision chain of lines 71-76
SentimentOfCounts(pos_count, neg_count, anger_count, app_count, has_mixed) ==
  IF anger_count > 0 THEN "anger"
  ELSE IF (pos_count > 0 /\ neg_count > 0)
            \/ (has_mixed /\ (pos_count > 0 \/ neg_count > 0))
    THEN "mixed"
  ELSE IF neg_count > 0 THEN "negative"
  ELSE IF pos_count > 0 THEN "positive"
  ELSE IF app_count > 0 THEN "appreciation"
  ELSE "neutral"

\* the counts of lines 65-69 over the lower-cased text
SentimentOfLower(text_lower) ==
  SentimentOfCounts(CountMatches(positive_kws, text_lower),
                    CountMatches(negative_kws, text_lower),
                    CountMatches(anger_kws, text_lower),
                    CountMatches(appreciation_kws, text_lower),
                    \E i \in DOMAIN mixed_kws : WordSearch(mixed_kws[i], text_lower))

analyze_sentiment_keywords(text) ==
  IF ~Truthy(text) THEN "neutral" ELSE SentimentOfLower(Lower(PyStr(text)))

\* the keyword lists of the theme chain and the social sources

theme_csr_kws ==
  << <<"c","s","r">>, <<"e","s","g">>, <<"d","o","n","a","t","i","o","n">>,
     <<"c","o","m","m","u","n","i","t","y">>, <<"f","o","u","n","d","a","t","i","o","n">>,
     <<"i","n","i","t","i","a","t","i","v","e">>,
     <<"s","u","s","t","a","i","n","a","b","i","l","i","t","y">>, <<"e","m","p","o","w","e","r">>,
     <<"s","c","h","o","l","a","r","s","h","i","p">> >>

theme_corporate_kws ==
  << <<"c","e","o">>, <<"g","m","d">>, <<"p","r","o","f","i","t">>, <<"r","e","s","u","l","t","s">>,
     <<"a","c","q","u","i","s","i","t","i","o","n">>, <<"c","o","r","p","o","r","a","t","e">>,
     <<"r","a","i","s","e">>, <<"c","a","p","i","t","a","l">>, <<"b","o","n","d">>,
     <<"e","a","r","n","i","n","g","s">>, <<"d","i","v","i","d","e","n","d">>,
     <<"f","i","n","a","n","c","i","a","l","s">>,
     <<"s","h","a","r","e","h","o","l","d","e","r","s">> >>

theme_partnership_kws ==
  << <<"p","a","r","t","n","e","r">>, <<"s","p","o","n","s","o","r","s","h","i","p">>,
     <<"m","a","r","a","t","h","o","n">>, <<"z","e","c","a","t","h","o","n">>,
     <<"c","o","l","l","a","b","o","r","a","t","i","o","n">>,
     <<"c","h","a","m","p","i","o","n","s">> >>

theme_product_kws ==
  << <<"a","p","p">>, <<"l","o","a","n">>, <<"c","a","r","d">>,
     <<"c","u","s","t","o","m","e","r"," ","s","e","r","v","i","c","e">>,
     <<"d","o","w","n","t","i","m","e">>, <<"g","l","i","t","c","h">>,
     <<"e","-","c","h","a","n","n","e","l">>, <<"t","r","a","n","s","f","e","r">>, <<"p","o","s">>,
     <<"d","i","g","i","t","a","l">>, <<"f","e","a","t","u","r","e">>,
     <<"p","l","a","t","f","o","r","m">> >>

theme_legal_kws ==
  << <<"f","r","a","u","d">>, <<"c","b","n">>, <<"e","f","c","c">>, <<"f","i","n","e">>,
     <<"c","o","u","r","t">>, <<"s","c","a","m">>, <<"a","l","l","e","g","a","t","i","o","n">>,
     <<"r","i","f","t">>, <<"l","a","w","s","u","i","t">>, <<"c","r","i","s","i","s">>,
     <<"v","u","l","n","e","r","a","b","i","l","i","t","y">>, <<"s","a","n","c","t","i","o","n">>,
     <<"e","r","o","s","i","o","n">> >>

social_sources ==
  << <<"r","e","d","d","i","t">>, <<"f","b">>, <<"f","a","c","e","b","o","o","k">>, <<"i","g">>,
     <<"i","n","s","t","a","g","r","a","m">>, <<"t","h","r","e","a","d","s">>,
     <<"t","w","i","t","t","e","r">>, <<"x">>, <<"l","i","n","k","e","d","i","n">> >>

\* ------------------------------------------------- theme classification

\* any(kw in text_lower for kw in kws)
AnyContained(kws, text_lower) ==
  \E i \in DOMAIN kws : Contains(text_lower, kws[i])

\* Mutant of classify_theme: the Legal/Risk keywords are tested first.
classify_theme_LegalFirst(text_lower) ==
  IF AnyContained(theme_legal_kws, text_lower) THEN "Legal/Risk"
  ELSE IF AnyContained(theme_csr_kws, text_lower) THEN "CSR/ESG"
  ELSE IF AnyContained(theme_corporate_kws, text_lower) THEN "Corporate"
  ELSE IF AnyContained(theme_partnership_kws, text_lower) THEN "Partnership/Sponsorship"
  ELSE IF AnyContained(theme_product_kws, text_lower) THEN "Product/Service"
  ELSE "General News"

\* the if/elif chain that backfills item['theme']
classify_theme(text_lower) ==
  IF AnyContained(theme_csr_kws, text_lower) THEN "CSR/ESG"
  ELSE IF AnyContained(theme_corporate_kws, text_lower) THEN "Corporate"
  ELSE IF AnyContained(theme_partnership_kws, text_lower) THEN "Partnership/Sponsorship"
  ELSE IF AnyContained(theme_product_kws, text_lower) THEN "Product/Service"
  ELSE IF AnyContained(theme_legal_kws, text_lower) THEN "Legal/Risk"
  ELSE "General News"

\* ------------------------------------------------------ brand detection

\* found_brands: the names of all_brands_list matched as whole words, in order
RECURSIVE detect_brands(_, _)
detect_brands(text_lower, all_brands_list) ==
  IF all_brands_list = <<>> THEN <<>>
  ELSE (IF WordSearch(Lower(Head(all_brands_list)), text_lower)
          THEN <<Head(all_brands_list)>> ELSE <<>>)
         \o detect_brands(text_lower, Tail(all_brands_list))

\* ------------------------------------------------------------ numbers

RECURSIVE SumSeq(_)
SumSeq(s) ==
  IF s = <<>> THEN 0 ELSE Head(s) + SumSeq(Tail(s))

\* str.strip() for blanks
RECURSIVE Strip(_)
Strip(s) ==
  IF s = <<>> THEN s
  ELSE IF Head(s) = " " THEN Strip(Tail(s))
  ELSE IF s[Len(s)] = " " THEN Strip(SubSeq(s, 1, Len(s) - 1))
  ELSE s

RECURSIVE DigitsValue(_)
DigitsValue(s) ==
  IF s = <<>> THEN 0
  ELSE 10 * DigitsValue(SubSeq(s, 1, Len(s) - 1))
         + (CHOOSE d \in 0..9 : DigitChars[d + 1] = s[Len(s)])

\* int(v): [ok |-> FALSE] stands for ValueError / TypeError
PyInt(v) ==
  CASE v.t = "int" -> [ok |-> TRUE, v |-> v.i]
    [] v.t = "str" ->
         LET s == Strip(v.s)
             neg == s # <<>> /\ Head(s) = "-"
             digits == IF neg THEN Tail(s) ELSE s
         IN  IF digits # <<>> /\ \A i \in DOMAIN digits : digits[i] \in Range(DigitChars)
               THEN [ok |-> TRUE, v |-> IF neg THEN 0 - DigitsValue(digits) ELSE DigitsValue(digits)]
               ELSE [ok |-> FALSE, v |-> 0]
    [] OTHER -> [ok |-> FALSE, v |-> 0]

\* int(item.get(key, 0) or 0)
IntOrZero(field) ==
  LET v == Get(field, Num(0))
  IN  IF Truthy(v) THEN PyInt(v) ELSE [ok |-> TRUE, v |-> 0]

\* a Python float that is a quotient of integers, kept exact
Ratio(n, d) ==
  [num |-> n, den |-> d]

Zero ==
  Ratio(0, 1)

\* ------------------------------------------------------ filter_by_hours

\* The time of the run, in hours: datetime.now(timezone.utc)
Now ==
  1000

\* dateparser.parse(str(raw_date)): a "date" string parses to its hour, anything
\* else (None, free text) raises.  h is the instant in UTC hours: a time without
\* tzinfo is taken as UTC (line 131), an aware one is compared by its instant.
ParseDate(raw_date) ==
  CASE raw_date.t = "ts" -> [ok |-> TRUE, h |-> raw_date.h]
    [] raw_date.t = "date" -> [ok |-> TRUE, h |-> raw_date.h]
    [] raw_date.t \in {"tsz", "datez"} -> [ok |-> TRUE, h |-> raw_date.h - raw_date.off]
    [] OTHER -> [ok |-> FALSE, h |-> 0]

\* Mutant of filter_by_hours: a mention dated exactly at the cutoff is dropped.
filter_by_hours_Strict(full_data, hours) ==
  IF ~Truthy(hours) THEN [i \in 1..Len(full_data) |-> i]
  ELSE
    LET cutoff == Now - hours.i
        keep(i) ==
          LET item_time == ParseDate(Get(full_data[i].date, None))
          IN  ~item_time.ok \/ item_time.h > cutoff
        F[i \in 0..Len(full_data)] ==
          IF i = 0 THEN <<>>
          ELSE IF keep(i) THEN Append(F[i - 1], i) ELSE F[i - 1]
    IN  F[Len(full_data)]

\* Mutant of filter_by_hours: only hours = None is a no-op, 0 is a window of no
\* length.
filter_by_hours_NoneOnly(full_data, hours) ==
  IF hours.t = "none" THEN [i \in 1..Len(full_data) |-> i]
  ELSE
    LET cutoff == Now - hours.i
        keep(i) ==
          LET item_time == ParseDate(Get(full_data[i].date, None))
          IN  ~item_time.ok \/ item_time.h >= cutoff
        F[i \in 0..Len(full_data)] ==
          IF i = 0 THEN <<>>
          ELSE IF keep(i) THEN Append(F[i - 1], i) ELSE F[i - 1]
    IN  F[Len(full_data)]

\* The positions of full_data that filter_by_hours keeps (the returned list
\* holds the same dict objects, in input order).
filter_by_hours(full_data, hours) ==
  IF ~Truthy(hours) THEN [i \in 1..Len(full_data) |-> i]
  ELSE
    LET cutoff == Now - hours.i
        keep(i) ==
          LET item_time == ParseDate(Get(full_data[i].date, None))
          IN  ~item_time.ok \/ item_time.h >= cutoff
        F[i \in 0..Len(full_data)] ==
          IF i = 0 THEN <<>>
          ELSE IF keep(i) THEN Append(F[i - 1], i) ELSE F[i - 1]
    IN  F[Len(full_data)]

\* ------------------------------------------------------- the inputs

\* "Acme"
Acme ==
  <<"A","c","m","e">>

\* "ACME"
ACME ==
  <<"A","C","M","E">>

\* "Zeta"
Zeta ==
  <<"Z","e","t","a">>

\* "apple"
apple ==
  <<"a","p","p","l","e">>

\* "Acme is great, thanks team!"
TextGreat ==
  <<"A","c","m","e"," ","i","s"," ","g","r","e","a","t",","," ","t","h","a","n","k","s"," ","t","e","a","m","!">>

\* "zeta app is bad"
TextBad ==
  <<"z","e","t","a"," ","a","p","p"," ","i","s"," ","b","a","d">>

\* "apple and ACME save more"
TextSave ==
  <<"a","p","p","l","e"," ","a","n","d"," ","A","C","M","E"," ","s","a","v","e"," ","m","o","r","e">>

\* "Save More"
MsgSave ==
  <<"S","a","v","e"," ","M","o","r","e">>

\* "Twitter", a source
Twitter ==
  <<"T","w","i","t","t","e","r">>

\* "n/a", a counter, reach or date that is no number and no date
NotANumber ==
  <<"n","/","a">>

\* A mention as a scraper builds it: text only, every optional key missing.
Base(text) ==
  [text |-> Str(text), source |-> Absent, date |-> Absent, authority |-> Absent,
   reach |-> Absent, likes |-> Absent, comments |-> Absent,
   sentiment |-> Absent, theme |-> Absent, mentioned_brands |-> Absent]

\* The longest mention list of the model.
MaxMentions ==
  2

\* The mentions the lists of the model are drawn from: each group varies the
\* fields one part of compute_kpis reads.
MentionUniverse ==
  { Base(TextGreat), Base(TextBad) }
  \cup { [Base(TextGreat) EXCEPT !.text = v] : v \in {Absent, None} }
  \cup { [Base(TextSave) EXCEPT !.date = d] : d \in {Date(Now - 48), Ts(Now - 1), Str(NotANumber)} }
  \cup { [Base(TextBad) EXCEPT !.sentiment = v[1], !.theme = v[2]] :
           v \in { <<None, Sym("")>>, <<Sym(""), None>>,
                   <<Sym("positive"), Sym("Corporate")>> } }
  \cup { [Base(TextGreat) EXCEPT !.mentioned_brands = v] :
           v \in {None, List(<<>>), List(<<ACME>>), List(<<Zeta, Zeta>>), Str(apple)} }
  \cup { [Base(TextGreat) EXCEPT !.source = Str(Twitter), !.likes = v[1],
                                 !.comments = Num(5), !.reach = v[2], !.authority = Num(8)] :
           v \in { <<Num(10), Num(1000)>>, <<Str(NotANumber), NaN>> } }
  \cup { [Base(TextGreat) EXCEPT !.source = None],
         [Base(TextGreat) EXCEPT !.authority = None] }

MentionLists ==
  UNION { [1..n -> MentionUniverse] : n \in 0..MaxMentions }

\* "thanks team"
TextThanks ==
  <<"t","h","a","n","k","s"," ","t","e","a","m">>

\* "News", a source that is no social platform
News ==
  <<"N","e","w","s">>

\* "Fox", a source whose name holds the token 'x'
Fox ==
  <<"F","o","x">>

\* a mention with the fields the aggregates of lines 223-260 read
Counted(text, source, likes, comments, reach, authority) ==
  [Base(text) EXCEPT !.source = source, !.likes = likes, !.comments = comments,
                     !.reach = reach, !.authority = authority]

\* The mentions of the aggregate specification: counters, reach and authority
\* that are numbers, numeric strings, text, NaN, None or missing, on social
\* and other sources, under texts of positive, negative and appreciation tone.
CountedMentions ==
  { Counted(TextGreat, Str(Twitter), Num(10), Num(5), Num(1000), Num(8)),
    Counted(TextGreat, Str(Twitter), Str(NotANumber), Num(5), NaN, Num(8)),
    Counted(TextBad, Str(Twitter), Str(<<"7">>), Str(NotANumber), Str(<<"2","5","0">>), Absent),
    Counted(TextBad, Str(Twitter), Absent, Absent, Absent, Num(3)),
    Counted(TextThanks, Str(Twitter), None, Str(<<"3">>), None, Absent),
    Counted(TextGreat, Str(News), Num(99), Num(1), Str(NotANumber), Num(3)),
    [Counted(TextBad, Absent, Str(NotANumber), Absent, Num(40), Num(2))
       EXCEPT !.sentiment = Sym("appreciation")],
    Counted(TextGreat, Str(Fox), NaN, Num(5), Num(1000), Absent),
    Counted(TextBad, Str(Fox), Num(4), Absent, Str(NotANumber), Absent) }

CountedLists ==
  UNION { [1..n -> CountedMentions] : n \in 0..MaxMentions }

CountedConfigs ==
  { [brand |-> Acme, competitors |-> <<>>, campaign_messages |-> <<>>, hours |-> None],
    [brand |-> Acme, competitors |-> <<Zeta>>, campaign_messages |-> <<MsgSave>>,
     hours |-> Num(24)] }

\* The arguments of a call: brand, competitors, campaign_messages, hours.
Configs ==
  { [brand |-> Acme, competitors |-> <<>>, campaign_messages |-> <<>>, hours |-> None],
    [brand |-> Acme, competitors |-> <<Zeta, apple>>, campaign_messages |-> <<MsgSave>>,
     hours |-> None],
    [brand |-> Acme, competitors |-> <<Zeta, apple>>, campaign_messages |-> <<MsgSave>>,
     hours |-> Num(24)],
    [brand |-> Zeta, competitors |-> <<Acme>>, campaign_messages |-> <<>>, hours |-> Num(24)] }

NoArgs ==
  [brand |-> <<>>, competitors |-> <<>>, campaign_messages |-> <<>>, hours |-> None]

\* The classifiers are functions of the text alone; they are evaluated once for
\* each text of the model.
\* Words for the theme chain: "ESG" is a CSR/ESG keyword, "ceo" a Corporate
\* one, "Partner" a Partnership/Sponsorship one, "fraud" a Legal/Risk one;
\* "apple" holds the Product/Service keyword "app", and "hello" holds none.
ThemeWords ==
  { <<"E","S","G">>, <<"c","e","o">>, <<"P","a","r","t","n","e","r">>,
    <<"a","p","p","l","e">>, <<"f","r","a","u","d">>, <<"h","e","l","l","o">> }

\* The most words of a text of the theme specification.
MaxThemeWords ==
  2

\* the words of ws, in order, with one blank between them
RECURSIVE JoinWords(_)
JoinWords(ws) ==
  IF Len(ws) = 1 THEN ws[1] ELSE ws[1] \o <<" ">> \o JoinWords(Tail(ws))

ThemeTexts ==
  { JoinWords(ws) : ws \in UNION { [1..n -> ThemeWords] : n \in 1..MaxThemeWords } }

\* Mentions without a theme, with an empty one, and with one of their own.
ThemeMentions ==
  { [Base(t) EXCEPT !.theme = v] : t \in ThemeTexts, v \in {Absent, Sym(""), Sym("Corporate")} }

TextsOfModel ==
  { Get(m.text, Str(<<>>)) : m \in MentionUniverse \cup CountedMentions \cup ThemeMentions }

SentimentOfText ==
  [v \in TextsOfModel |-> analyze_sentiment_keywords(v)]

ThemeOfText ==
  [v \in TextsOfModel |-> classify_theme(Lower(PyStr(v)))]

\* ---------------------------------------------------------- compute_kpis

DefaultAuthority ==
  5

\* brand_counts[b] += 1 on a Counter
CounterInc(counter, b) ==
  IF b \in DOMAIN counter
    THEN [counter EXCEPT ![b] = @ + 1]
    ELSE [x \in DOMAIN counter \cup {b} |-> IF x = b THEN 1 ELSE counter[x]]

\* counter[b], which is 0 for a key the Counter does not hold
CounterGet(counter, b) ==
  IF b \in DOMAIN counter THEN counter[b] ELSE 0

RECURSIVE CounterAddAll(_, _)
CounterAddAll(counter, names) ==
  IF names = <<>> THEN counter
  ELSE CounterAddAll(CounterInc(counter, Head(names)), Tail(names))

\* Mutant of BackfillSentiment: the keyword classifier overwrites a supplied label.
BackfillSentiment_Overwrite(item) ==
  Sym(SentimentOfText[Get(item.text, Str(<<>>))])

\* A. the sentiment an item has after the backfill of lines 170-171
BackfillSentiment(item) ==
  IF ~Truthy(item.sentiment)
    THEN Sym(SentimentOfText[Get(item.text, Str(<<>>))])
    ELSE item.sentiment

\* Mutant of BackfillTheme: backfills only when the key is missing, so that a
\* null or empty theme stays.
BackfillTheme_KeyOnly(item) ==
  IF item.theme.t = "absent"
    THEN Sym(ThemeOfText[Get(item.text, Str(<<>>))])
    ELSE item.theme

\* B. the theme an item has after the backfill of lines 175-187
BackfillTheme(item) ==
  IF ~Truthy(item.theme)
    THEN Sym(ThemeOfText[Get(item.text, Str(<<>>))])
    ELSE item.theme

\* Mutant of BackfillBrands: the detected names are added to a list that is
\* already there.
BackfillBrands_Extend(item, all_brands_list) ==
  LET found == detect_brands(Lower(PyStr(Get(item.text, Str(<<>>)))), all_brands_list)
  IN  IF item.mentioned_brands.t = "absent" THEN List(found)
      ELSE IF item.mentioned_brands.t = "list" THEN List(item.mentioned_brands.l \o found)
      ELSE item.mentioned_brands

\* C. mentioned_brands after the backfill of lines 192-198
BackfillBrands(item, all_brands_list) ==
  IF item.mentioned_brands.t = "absent"
    THEN List(detect_brands(Lower(PyStr(Get(item.text, Str(<<>>)))), all_brands_list))
    ELSE item.mentioned_brands

\* `for b in mentions` (lines 201-204): the names counted for a mentioned_brands
\* value mb; raised when mb cannot be iterated
IterateBrands(after, mb) ==
  [item |-> after,
   raised |-> mb.t \notin {"str", "list"},
   mentions |-> IF mb.t = "str" THEN <<mb.s>>
                ELSE IF mb.t = "list" THEN mb.l ELSE <<>>]

\* the item with the three fields as the loop body leaves them
WithFields(item, sentiment, theme, mb) ==
  IterateBrands([item EXCEPT !.sentiment = sentiment, !.theme = theme,
                             !.mentioned_brands = mb], mb)

\* One pass of the analysis loop body over item: the item as the body leaves
\* it, and the names it counts.
ProcessItem(item, all_brands_list) ==
  WithFields(item, BackfillSentiment(item), BackfillTheme(item),
             BackfillBrands(item, all_brands_list))

EmptyCounter ==
  [x \in {} |-> 0]

RECURSIVE AnalysisLoop(_, _, _, _)

\* the rest of the loop once the body has run over the item at Head(kept)
RECURSIVE LoopStep(_, _, _, _, _)
LoopStep(data, kept, all_brands_list, acc, p) ==
  IF p.raised
    THEN [data |-> [data EXCEPT ![Head(kept)] = p.item], raised |-> TRUE,
          tones |-> acc.tones, themes |-> acc.themes, brand_counts |-> acc.brand_counts]
    ELSE AnalysisLoop([data EXCEPT ![Head(kept)] = p.item], Tail(kept), all_brands_list,
           [tones |-> Append(acc.tones, p.item.sentiment),
            themes |-> Append(acc.themes, p.item.theme),
            brand_counts |-> CounterAddAll(acc.brand_counts, p.mentions)])

\* The analysis loop over the kept positions; it stops at the first raise and
\* leaves the items mutated so far in the caller's list.
AnalysisLoop(data, kept, all_brands_list, acc) ==
  IF kept = <<>> THEN [data |-> data, raised |-> FALSE, tones |-> acc.tones,
                       themes |-> acc.themes, brand_counts |-> acc.brand_counts]
  ELSE LoopStep(data, kept, all_brands_list, acc,
                ProcessItem(data[Head(kept)], all_brands_list))

\* the sort key (x.lower() != brand.lower(), x) compared as Python compares tuples
KeyLess(x, y, brand) ==
  LET fx == Lower(x) # Lower(brand)
      fy == Lower(y) # Lower(brand)
  IN  IF fx # fy THEN ~fx ELSE StrLess(x, y)

\* sorted(list(final_brand_list), key=lambda x: (x.lower() != brand.lower(), x))
RECURSIVE SortBrands(_, _)
SortBrands(names, brand) ==
  IF names = {} THEN <<>>
  ELSE LET first == CHOOSE x \in names : \A y \in names \ {x} : KeyLess(x, y, brand)
       IN  <<first>> \o SortBrands(names \ {first}, brand)

\* Mutant of FinalBrandList: the names found only in the data are left out.
FinalBrandList_ConfiguredOnly(all_brands_list, brand_counts, brand) ==
  SortBrands(Range(all_brands_list), brand)

\* final_brand_list: the configured names and the names counted in the data, sorted
FinalBrandList(all_brands_list, brand_counts, brand) ==
  SortBrands(Range(all_brands_list) \cup DOMAIN brand_counts, brand)

\* Mutant of RatioMap: divides by the number of labels, not of mentions.
RatioMap_PerLabel(labels, total_mentions) ==
  [l \in Range(labels) |->
     Ratio(Cardinality({ i \in DOMAIN labels : labels[i] = l }) * 100,
           Cardinality(Range(labels)))]

\* {label: count / total_mentions * 100 for label, count in Counter(labels).items()}
RatioMap(labels, total_mentions) ==
  [l \in Range(labels) |->
     Ratio(Cardinality({ i \in DOMAIN labels : labels[i] = l }) * 100, total_mentions)]

\* sum(brand_counts.values())
RECURSIVE CounterTotal(_)
CounterTotal(counter) ==
  IF DOMAIN counter = {} THEN 0
  ELSE LET k == CHOOSE k \in DOMAIN counter : TRUE
       IN  counter[k] + CounterTotal([x \in DOMAIN counter \ {k} |-> counter[x]])

\* sov: one entry per name of final_brand_list
SovList(final_brand_list, brand_counts) ==
  LET total_appearances == CounterTotal(brand_counts)
  IN  [k \in 1..Len(final_brand_list) |->
         IF total_appearances > 0
           THEN Ratio(CounterGet(brand_counts, final_brand_list[k]) * 100, total_appearances)
           ELSE Zero]

\* Mutant of IsFavourable: appreciation does not count.
IsFavourable_PositiveOnly(item) ==
  item.sentiment.t = "sym" /\ item.sentiment.s = "positive"

\* item.get('sentiment') in ['positive', 'appreciation']
IsFavourable(item) ==
  item.sentiment.t = "sym" /\ item.sentiment.s \in {"positive", "appreciation"}

\* mis: sum(item.get('authority', 5) ...) adds numbers only
MisRaises(items) ==
  \E k \in DOMAIN items :
    IsFavourable(items[k]) /\ Get(items[k].authority, Num(DefaultAuthority)).t # "int"

MisOf(items) ==
  SumSeq([k \in DOMAIN items |->
            IF IsFavourable(items[k])
              THEN Get(items[k].authority, Num(DefaultAuthority)).i ELSE 0])

\* item.get('text', '').lower() needs a string
MpiRaises(items, campaign_messages) ==
  campaign_messages # <<>>
    /\ \E k \in DOMAIN items : Get(items[k].text, Str(<<>>)).t # "str"

\* Mutant of MpiOf: a mention counts once for every message it contains.
MpiOf_PerMessage(items, campaign_messages) ==
  IF campaign_messages # <<>>
    THEN Ratio(SumSeq([k \in DOMAIN items |->
                         Cardinality({ m \in DOMAIN campaign_messages :
                           Contains(Lower(Get(items[k].text, Str(<<>>)).s),
                                    Lower(campaign_messages[m])) })]) * 100,
               Len(items))
    ELSE Zero

MpiOf(items, campaign_messages) ==
  IF campaign_messages # <<>>
    THEN LET lower_campaign_messages ==
               [m \in DOMAIN campaign_messages |-> Lower(campaign_messages[m])]
             matches ==
               Cardinality({ k \in DOMAIN items :
                 \E m \in DOMAIN lower_campaign_messages :
                   Contains(Lower(Get(items[k].text, Str(<<>>)).s), lower_campaign_messages[m]) })
         IN  Ratio(matches * 100, Len(items))
    ELSE Zero

\* item.get('source', '').lower() needs a string
EngagementRaises(items) ==
  \E k \in DOMAIN items : Get(items[k].source, Str(<<>>)).t # "str"

IsSocial(item) ==
  LET src == Lower(Get(item.source, Str(<<>>)).s)
  IN  \E s \in DOMAIN social_sources : Contains(src, social_sources[s])

\* Mutant of Qualifies: the source is not looked at.
Qualifies_AnySource(item) ==
  IntOrZero(item.likes).ok /\ IntOrZero(item.comments).ok

\* Mutant of Qualifies: a counter that does not coerce is taken as 0.
Qualifies_ZeroFill(item) ==
  IsSocial(item)

\* the try block of the engagement loop: both counters coerce, or the item is skipped
Qualifies(item) ==
  IsSocial(item) /\ IntOrZero(item.likes).ok /\ IntOrZero(item.comments).ok

EngagementOf(items) ==
  LET total_engagement ==
        SumSeq([k \in DOMAIN items |->
                  IF Qualifies(items[k])
                    THEN IntOrZero(items[k].likes).v + IntOrZero(items[k].comments).v
                    ELSE 0])
      num_social_mentions == Cardinality({ k \in DOMAIN items : Qualifies(items[k]) })
  IN  IF num_social_mentions > 0 THEN Ratio(total_engagement, num_social_mentions) ELSE Zero

\* int(r if pd.notna(r) else 0), 0 when that raises
ReachOfItem(item) ==
  LET r == Get(item.reach, Num(0))
  IN  IF r.t \in {"none", "nan"} THEN 0
      ELSE IF PyInt(r).ok THEN PyInt(r).v ELSE 0

\* Mutant of ReachOf: the loop ends at the first reach that does not coerce.
ReachOf_Break(items) ==
  SumSeq([k \in DOMAIN items |->
            IF \A j \in 1..k : LET r == Get(items[j].reach, Num(0))
                                IN  r.t \in {"none", "nan"} \/ PyInt(r).ok
              THEN ReachOfItem(items[k]) ELSE 0])

ReachOf(items) ==
  SumSeq([k \in DOMAIN items |-> ReachOfItem(items[k])])

\* Mutant of EmptyResult: one zero sov entry for the tracked brand.
EmptyResult_ZeroSov(brand) ==
  [sentiment_ratio |-> EmptyCounter, sov |-> <<Zero>>, mis |-> 0, mpi |-> Zero,
   engagement_rate |-> Zero, reach |-> 0, all_brands |-> <<brand>>]

\* the dict returned at line 155
EmptyResult(brand) ==
  [sentiment_ratio |-> EmptyCounter, sov |-> <<>>, mis |-> 0, mpi |-> Zero,
   engagement_rate |-> Zero, reach |-> 0, all_brands |-> <<brand>>]

\* Counter(tones) and Counter(themes) (lines 217, 220) hash every label, and a
\* list cannot be hashed
Unhashable(labels) ==
  \E i \in DOMAIN labels : labels[i].t = "list"

Raised(exc, data) ==
  [outcome |-> "raised", result |-> [raised |-> exc], kept |-> <<>>, data |-> data]

\* the aggregates of lines 206-272 over the processed items
Aggregate(data, kept, items, tones, themes, brand_counts, campaign_messages, final_brand_list) ==
  IF Unhashable(tones) \/ Unhashable(themes) THEN Raised("TypeError", data)
  ELSE IF MisRaises(items) THEN Raised("TypeError", data)
  ELSE IF MpiRaises(items, campaign_messages) THEN Raised("AttributeError", data)
  ELSE IF EngagementRaises(items) THEN Raised("AttributeError", data)
  ELSE [outcome |-> "returned",
        result |->
          [sentiment_ratio |-> RatioMap(tones, Len(kept)),
           theme_ratio |-> RatioMap(themes, Len(kept)),
           sov |-> SovList(final_brand_list, brand_counts),
           mis |-> MisOf(items),
           mpi |-> MpiOf(items, campaign_messages),
           engagement_rate |-> EngagementOf(items),
           reach |-> ReachOf(items),
           all_brands |-> final_brand_list,
           analyzed_data |-> items],
        kept |-> kept, data |-> data]

\* what follows the analysis loop
AfterLoop(loop, kept, campaign_messages, brand, all_brands_list) ==
  IF loop.raised THEN Raised("TypeError", loop.data)
  ELSE Aggregate(loop.data, kept, [k \in 1..Len(kept) |-> loop.data[kept[k]]],
                 loop.tones, loop.themes, loop.brand_counts, campaign_messages,
                 FinalBrandList(all_brands_list, loop.brand_counts, brand))

\* what follows the time filter; kept holds the positions it left
AfterFilter(full_data, kept, campaign_messages, brand, all_brands_list) ==
  IF kept = <<>>
    THEN [outcome |-> "returned", result |-> EmptyResult(brand),
          kept |-> kept, data |-> full_data]
    ELSE AfterLoop(AnalysisLoop(full_data, kept, all_brands_list,
                     [tones |-> <<>>, themes |-> <<>>, brand_counts |-> EmptyCounter]),
                   kept, campaign_messages, brand, all_brands_list)

\* compute_kpis(full_data, campaign_messages, brand, competitors, industry, hours):
\* the outcome, the returned dict, the positions of the caller's list that were
\* processed, and the caller's list as the in-place writes leave it.
compute_kpis(full_data, campaign_messages, brand, competitors, hours) ==
  AfterFilter(full_data,
              IF Truthy(hours) THEN filter_by_hours(full_data, hours)
              ELSE [i \in 1..Len(full_data) |-> i],
              campaign_messages, brand, <<brand>> \o competitors)

\* ------------------------------------------------- module-level state

\* the words of nltk's English stop word list that the corpora of the model use
english_stopwords ==
  { <<"t","h","e">>, <<"a","n","d">> }

\* stop_words, as line 20 leaves it
stop_words ==
  english_stopwords
    \cup { <<"c","o","m">>,
           <<"w","w","w">>,
           <<"h","t","t","p">>,
           <<"h","t","t","p","s">>,
           <<"c","o">>,
           <<"u","k">>,
           <<"a","m","p">>,
           <<"r","t">>,
           <<"v","i","a">>,
           <<"s","t","a","t","u","s">>,
           <<"t","w","i","t","t","e","r">> }

\* ------------------------------------------------------ the state machine

VARIABLES
  full_data,   \* the caller's mention list (st.session_state.full_data)
  args,        \* the arguments of the last compute_kpis call
  entry,       \* the caller's list as it was when that call began
  kept,        \* the positions of the list that call processed
  outcome,     \* "none" before any call, then "returned" or "raised"
  result,      \* the dict the call returned
  repeat,      \* the call repeated the arguments of a call that had returned
  fn_args,     \* the arguments of a call of one of the module's pure functions
  fn_value     \* what that call returned

VARIABLES
  lists,             \* the mention lists concurrent callers hold, by list id
  runs,              \* the compute_kpis runs in flight, by thread
  module_stop_words, \* analysis.stop_words, the module-level set
  session_state,     \* st.session_state of the dashboard page
  run_log,           \* what the last run_smart_analysis call did
  llm,               \* the retry loop of bedrock.get_batch_llm_sentiments
  cache,             \* the scraper's cache file, key -> entry
  clock,             \* time.time(), in seconds
  fetch_log          \* what the last scraper.fetch_all call did

kpi_vars ==
  <<full_data, args, entry, kept, outcome, result, repeat, fn_args, fn_value>>

thread_vars ==
  <<lists, runs, module_stop_words>>

page_vars ==
  <<session_state, run_log>>

scraper_vars ==
  <<cache, clock, fetch_log>>

rest_vars ==
  <<thread_vars, page_vars, llm, scraper_vars>>

vars ==
  <<kpi_vars, rest_vars>>

\* no call of a pure function was made
NoCall ==
  [fn |-> "none"]

\* {}, the kpis main() starts a session with (dashboard.py line 348)
EmptyDict ==
  [dict |-> "empty"]

\* no thread runs compute_kpis, and the module is as the import left it
ThreadsIdle ==
  /\ lists = <<>>
  /\ runs = <<>>
  /\ module_stop_words = stop_words

\* the dashboard page before its first run: the defaults of its session state
PageIdle ==
  /\ session_state = [full_data |-> <<>>, kpis |-> EmptyDict, top_keywords |-> Absent,
                      analysis_mode |-> "Pending"]
  /\ run_log = NoCall

\* no call of bedrock.get_batch_llm_sentiments
LlmIdle ==
  llm = NoCall

\* no cache file yet, and no call of scraper.fetch_all
ScraperIdle ==
  /\ cache = <<>>
  /\ clock = 0
  /\ fetch_log = NoCall

RestIdle ==
  /\ ThreadsIdle
  /\ PageIdle
  /\ LlmIdle
  /\ ScraperIdle

\* no call of compute_kpis or of a pure function of the module
KpiIdle ==
  /\ full_data = <<>>
  /\ args = NoArgs
  /\ entry = <<>>
  /\ kept = <<>>
  /\ outcome = "none"
  /\ result = [raised |-> "none"]
  /\ repeat = FALSE
  /\ fn_args = NoCall
  /\ fn_value = NoCall

Init ==
  /\ full_data \in MentionLists
  /\ args = NoArgs
  /\ entry = <<>>
  /\ kept = <<>>
  /\ outcome = "none"
  /\ result = [raised |-> "none"]
  /\ repeat = FALSE
  /\ fn_args = NoCall
  /\ fn_value = NoCall
  /\ RestIdle

\* One call of compute_kpis on the caller's list.
ComputeKpis(cfg) ==
  \E r \in { compute_kpis(full_data, cfg.campaign_messages, cfg.brand,
                          cfg.competitors, cfg.hours) } :
    /\ args' = cfg
    /\ entry' = full_data
    /\ full_data' = r.data
    /\ kept' = r.kept
    /\ outcome' = r.outcome
    /\ result' = r.result
    /\ repeat' = (outcome = "returned" /\ args = cfg)
    /\ UNCHANGED <<fn_args, fn_value>>
    /\ UNCHANGED rest_vars

Next ==
  \E cfg \in Configs : ComputeKpis(cfg)

Spec ==
  Init /\ [][Next]_vars

\* ------------------------------- analyze_sentiment_keywords on its own

\* The words the texts of the sentiment specification are made of: one keyword
\* of each list, a word of no list, the anger keyword that ends in '!', a word
\* that merely contains a keyword, and a keyword in upper case.
SentimentWords ==
  { <<"g","o","o","d">>,
    <<"b","a","d">>,
    <<"f","u","r","i","o","u","s">>,
    <<"t","h","a","n","k","s">>,
    <<"h","o","w","e","v","e","r">>,
    <<"s","e","r","v","i","c","e">>,
    <<"w","o","r","s","t","!">>,
    <<"b","a","d","l","y">>,
    <<"G","O","O","D">> }

\* The largest number of words of such a text.
MaxWords ==
  3

SentimentTexts ==
  { JoinWords(ws) : ws \in UNION { [1..n -> SentimentWords] : n \in 1..MaxWords } }

\* The values analyze_sentiment_keywords is called with: None, '' and the texts.
SentimentInputs ==
  { None, Str(<<>>) } \cup { Str(t) : t \in SentimentTexts }

InitSentiment ==
  /\ full_data = <<>>
  /\ args = NoArgs
  /\ entry = <<>>
  /\ kept = <<>>
  /\ outcome = "none"
  /\ result = [raised |-> "none"]
  /\ repeat = FALSE
  /\ fn_args \in { [fn |-> "analyze_sentiment_keywords", text |-> v] : v \in SentimentInputs }
  /\ fn_value = NoCall
  /\ RestIdle

\* One call analyze_sentiment_keywords(text).
AnalyzeSentiment ==
  /\ fn_args.fn = "analyze_sentiment_keywords"
  /\ fn_value = NoCall
  /\ fn_value' = [fn |-> fn_args.fn, value |-> analyze_sentiment_keywords(fn_args.text)]
  /\ UNCHANGED <<full_data, args, entry, kept, outcome, result, repeat, fn_args>>
  /\ UNCHANGED rest_vars

NextSentiment ==
  AnalyzeSentiment

SpecSentiment ==
  InitSentiment /\ [][NextSentiment]_vars

\* ------------------------------------------------------ extract_keywords

\* the scan of word_tokenize: toks are the words closed so far, cur the
\* characters of the word being read
RECURSIVE TokenScan(_, _, _)
TokenScan(text, toks, cur) ==
  IF text = <<>> THEN (IF cur = <<>> THEN toks ELSE Append(toks, cur))
  ELSE IF Head(text) = " "
    THEN TokenScan(Tail(text), IF cur = <<>> THEN toks ELSE Append(toks, cur), <<>>)
    ELSE TokenScan(Tail(text), toks, Append(cur, Head(text)))

\* nltk.word_tokenize on a text of words separated by blanks: the words
word_tokenize(text) ==
  TokenScan(text, <<>>, <<>>)

\* the generic business words of line 94
generic_stop_words ==
  { <<"b","a","n","k">>,
    <<"p","l","c">>,
    <<"l","t","d">>,
    <<"g","r","o","u","p">>,
    <<"h","o","l","d","i","n","g","s">>,
    <<"c","u","s","t","o","m","e","r">>,
    <<"c","u","s","t","o","m","e","r","s">>,
    <<"t","o","d","a","y">>,
    <<"y","e","a","r">> }

\* str.isalpha() on the characters of the model
IsAlpha(t) ==
  t # <<>> /\ \A i \in DOMAIN t : t[i] \in Range(UpperChars) \cup Range(LowerChars)

\* dynamic_stop_words of lines 88-94
DynamicStopWords(brand, competitors) ==
  stop_words
    \cup (IF brand # <<>> THEN {Lower(brand)} ELSE {})
    \cup { Lower(competitors[c]) : c \in DOMAIN competitors }
    \cup generic_stop_words

\* [t for t in tokens if len(t) > 2 and t.isalpha() and t not in dynamic_stop_words]
RECURSIVE FilterTokens(_, _)
FilterTokens(tokens, dynamic_stop_words) ==
  IF tokens = <<>> THEN <<>>
  ELSE IF Len(Head(tokens)) > 2 /\ IsAlpha(Head(tokens)) /\ Head(tokens) \notin dynamic_stop_words
    THEN <<Head(tokens)>> \o FilterTokens(Tail(tokens), dynamic_stop_words)
    ELSE FilterTokens(Tail(tokens), dynamic_stop_words)

\* freq[key] += n on a Counter kept as its items in insertion order
FreqAdd(freq, key, n) ==
  IF \E i \in DOMAIN freq : freq[i].phrase = key
    THEN [i \in DOMAIN freq |->
            IF freq[i].phrase = key THEN [freq[i] EXCEPT !.count = @ + n] ELSE freq[i]]
    ELSE Append(freq, [phrase |-> key, count |-> n])

\* FreqDist(samples): the count of each sample, in order of first occurrence
RECURSIVE FreqDist(_, _)
FreqDist(samples, freq) ==
  IF samples = <<>> THEN freq
  ELSE FreqDist(Tail(samples), FreqAdd(freq, Head(samples), 1))

\* the adjacent pairs of BigramCollocationFinder.from_words, each already
\* joined by a blank as line 109 joins it
Bigrams(tokens) ==
  [i \in 1..(Len(tokens) - 1) |-> tokens[i] \o <<" ">> \o tokens[i + 1]]

\* finder.apply_freq_filter(min_freq): the items of a count below it are dropped
RECURSIVE ApplyFreqFilter(_, _)
ApplyFreqFilter(freq, min_freq) ==
  IF freq = <<>> THEN <<>>
  ELSE IF Head(freq).count >= min_freq
    THEN <<Head(freq)>> \o ApplyFreqFilter(Tail(freq), min_freq)
    ELSE ApplyFreqFilter(Tail(freq), min_freq)

\* the lowest count a bigram is kept with
MinBigramFreq ==
  2

\* the number of entries extract_keywords returns at most
TopN ==
  10

\* combined_freq += each item of freq
RECURSIVE FreqMerge(_, _)
FreqMerge(combined_freq, freq) ==
  IF freq = <<>> THEN combined_freq
  ELSE FreqMerge(FreqAdd(combined_freq, Head(freq).phrase, Head(freq).count), Tail(freq))

\* Mutant of MostCommon: the first n entries in insertion order, unsorted.
MostCommon_Head(freq, n) ==
  SubSeq(freq, 1, IF Len(freq) < n THEN Len(freq) ELSE n)

\* Counter.most_common(n): by count, highest first, equal counts in insertion
\* order, the first n
RECURSIVE MostCommon(_, _)
MostCommon(freq, n) ==
  IF freq = <<>> \/ n = 0 THEN <<>>
  ELSE LET top == CHOOSE i \in DOMAIN freq :
                    /\ \A j \in DOMAIN freq : freq[j].count <= freq[i].count
                    /\ \A j \in 1..(i - 1) : freq[j].count < freq[i].count
       IN  <<freq[top]>>
             \o MostCommon(SubSeq(freq, 1, top - 1) \o SubSeq(freq, top + 1, Len(freq)), n - 1)

\* lines 98-111 over the filtered tokens
KeywordsOfTokens(filtered_tokens) ==
  MostCommon(FreqMerge(FreqDist(filtered_tokens, <<>>),
                       ApplyFreqFilter(FreqDist(Bigrams(filtered_tokens), <<>>), MinBigramFreq)),
             TopN)

extract_keywords(all_text, brand, competitors) ==
  KeywordsOfTokens(FilterTokens(word_tokenize(Lower(all_text)),
                                DynamicStopWords(brand, competitors)))

\* "Acme Corp", a name of two words
AcmeCorp ==
  <<"A","c","m","e"," ","C","o","r","p">>

\* The words the corpora of the keyword specification are made of.
CorpusWords ==
  { <<"A","c","m","e">>, <<"c","o","r","p">>, <<"z","e","t","a">>, <<"w","i","n","s">>, <<"t","h","e">>, <<"b","a","n","k">>, <<"o","k">> }

\* The largest number of words of a corpus.
MaxCorpusWords ==
  4

Corpora ==
  { <<>> } \cup { JoinWords(ws) : ws \in UNION { [1..n -> CorpusWords] : n \in 1..MaxCorpusWords } }

\* The brand and the competitors extract_keywords is called with.
KeywordConfigs ==
  { [brand |-> Acme, competitors |-> <<Zeta>>],
    [brand |-> AcmeCorp, competitors |-> <<>>],
    [brand |-> Zeta, competitors |-> <<AcmeCorp, apple>>] }

InitKeywords ==
  /\ full_data = <<>>
  /\ args = NoArgs
  /\ entry = <<>>
  /\ kept = <<>>
  /\ outcome = "none"
  /\ result = [raised |-> "none"]
  /\ repeat = FALSE
  /\ fn_args \in { [fn |-> "extract_keywords", all_text |-> t, brand |-> c.brand,
                    competitors |-> c.competitors] : t \in Corpora, c \in KeywordConfigs }
  /\ fn_value = NoCall
  /\ RestIdle

\* One call extract_keywords(all_text, brand, competitors).
ExtractKeywords ==
  /\ fn_args.fn = "extract_keywords"
  /\ fn_value = NoCall
  /\ fn_value' = [fn |-> fn_args.fn,
                  value |-> extract_keywords(fn_args.all_text, fn_args.brand,
                                             fn_args.competitors)]
  /\ UNCHANGED <<full_data, args, entry, kept, outcome, result, repeat, fn_args>>
  /\ UNCHANGED rest_vars

NextKeywords ==
  ExtractKeywords

SpecKeywords ==
  InitKeywords /\ [][NextKeywords]_vars

\* ------------------------------------------- filter_by_hours on its own

\* The mentions of the time-window specification: one text, the date missing,
\* null, unparseable, before, at and after the cutoffs, naive and aware.
DatedMentions ==
  { [Base(TextBad) EXCEPT !.date = d] :
      d \in { Absent, None, Str(NotANumber),
              Date(Now - 48), Date(Now - 24), Ts(Now - 25), Ts(Now - 1),
              TsAt(Now - 23, 2), DateAt(Now - 26, 0 - 3) } }

DatedLists ==
  UNION { [1..n -> DatedMentions] : n \in 0..MaxMentions }

\* The values of hours: unset, 0 and two windows.
WindowHours ==
  { None, Num(0), Num(24), Num(48) }

WindowConfigs ==
  { [brand |-> Acme, competitors |-> <<>>, campaign_messages |-> <<>>, hours |-> h] :
      h \in WindowHours }

InitWindow ==
  /\ full_data \in DatedLists
  /\ args = NoArgs
  /\ entry = <<>>
  /\ kept = <<>>
  /\ outcome = "none"
  /\ result = [raised |-> "none"]
  /\ repeat = FALSE
  /\ fn_args = NoCall
  /\ fn_value = NoCall
  /\ RestIdle

\* One call filter_by_hours(full_data, hours); value holds the positions of
\* full_data whose dicts make up the returned list.
FilterByHours(hours) ==
  /\ fn_args' = [fn |-> "filter_by_hours", full_data |-> full_data, hours |-> hours]
  /\ fn_value' = [fn |-> "filter_by_hours", value |-> filter_by_hours(full_data, hours)]
  /\ UNCHANGED <<full_data, args, entry, kept, outcome, result, repeat>>
  /\ UNCHANGED rest_vars

NextWindow ==
  \/ \E hours \in WindowHours : FilterByHours(hours)
  \/ \E cfg \in WindowConfigs : ComputeKpis(cfg)

SpecWindow ==
  InitWindow /\ [][NextWindow]_vars

\* ------------------------------------ the aggregates of compute_kpis

InitCounted ==
  /\ full_data \in CountedLists
  /\ args = NoArgs
  /\ entry = <<>>
  /\ kept = <<>>
  /\ outcome = "none"
  /\ result = [raised |-> "none"]
  /\ repeat = FALSE
  /\ fn_args = NoCall
  /\ fn_value = NoCall
  /\ RestIdle

NextCounted ==
  \E cfg \in CountedConfigs : ComputeKpis(cfg)

SpecCounted ==
  InitCounted /\ [][NextCounted]_vars

\* ------------------------------------------ the message penetration index

\* "MORE", a second campaign message
MsgMore ==
  <<"M","O","R","E">>

\* "great"
MsgGreat ==
  <<"g","r","e","a","t">>

\* The mentions of the campaign specification: texts that hold both, one or
\* none of the messages, and a mention without text.
CampaignMentions ==
  { Base(TextSave), Base(TextGreat), Base(TextBad), [Base(TextBad) EXCEPT !.text = Absent] }

CampaignLists ==
  UNION { [1..n -> CampaignMentions] : n \in 0..MaxMentions }

\* The calls of the campaign specification: no message, one, two that occur
\* in the same text, two that occur in different texts.
CampaignConfigs ==
  { [brand |-> Acme, competitors |-> <<>>, campaign_messages |-> msgs, hours |-> None] :
      msgs \in { <<>>, <<MsgSave>>, <<MsgSave, MsgMore>>, <<MsgGreat, MsgMore>> } }

InitCampaign ==
  /\ full_data \in CampaignLists
  /\ args = NoArgs
  /\ entry = <<>>
  /\ kept = <<>>
  /\ outcome = "none"
  /\ result = [raised |-> "none"]
  /\ repeat = FALSE
  /\ fn_args = NoCall
  /\ fn_value = NoCall
  /\ RestIdle

NextCampaign ==
  \E cfg \in CampaignConfigs : ComputeKpis(cfg)

SpecCampaign ==
  InitCampaign /\ [][NextCampaign]_vars


\* ------------------------------------------- compute_kpis runs in threads

\* Mutant of StartAcc: the accumulators are module-level, so that a run starts
\* with what the thread's run before it left in them.
StartAcc_Shared(prev) ==
  prev

\* tones = [], themes = [], brand_counts = Counter() (lines 160-162): every run
\* starts with accumulators of its own, whatever the run before it left in prev
StartAcc(prev) ==
  [tones |-> <<>>, themes |-> <<>>, brand_counts |-> EmptyCounter]

\* Mutant of StopWordsAfter: the names are added to the module's set itself.
StopWordsAfter_Alias(module_set, dynamic_stop_words) ==
  dynamic_stop_words

\* dynamic_stop_words = stop_words.copy() (line 88): the names are added to a
\* copy, and the module's set is after the call what it was before
StopWordsAfter(module_set, dynamic_stop_words) ==
  module_set

\* lines 88-95 over the module's set as the call finds it
DynamicStopWordsOf(module_set, brand, competitors) ==
  module_set
    \cup (IF brand # <<>> THEN {Lower(brand)} ELSE {})
    \cup { Lower(competitors[c]) : c \in DOMAIN competitors }
    \cup generic_stop_words

\* extract_keywords as a call that finds the module's set as module_set
extract_keywords_call(module_set, all_text, brand, competitors) ==
  KeywordsOfTokens(FilterTokens(word_tokenize(Lower(all_text)),
                                DynamicStopWordsOf(module_set, brand, competitors)))

ThreadIds ==
  {1, 2}

\* The most compute_kpis calls one thread makes.
MaxCalls ==
  2

\* The longest mention list a thread holds.
MaxThreadMentions ==
  2

\* Mentions as the scrapers build them: no sentiment, theme or mentioned_brands.
ThreadMentions ==
  { Base(TextGreat), Base(TextBad) }

ThreadLists ==
  UNION { [1..n -> ThreadMentions] : n \in 1..MaxThreadMentions }

\* Two callers that track different brands: thread 1 tracks Acme, thread 2 Zeta.
ThreadConfig ==
  <<[brand |-> Acme, competitors |-> <<>>, campaign_messages |-> <<>>, hours |-> None],
    [brand |-> Zeta, competitors |-> <<>>, campaign_messages |-> <<>>, hours |-> None]>>

\* "Acme wins zeta wins"
TextWins ==
  JoinWords(<<Acme, <<"w","i","n","s">>, Zeta, <<"w","i","n","s">>>>)

\* a thread that has made no call yet on the list it holds
IdleRun(list) ==
  [list |-> list, calls |-> 0, status |-> "idle", cfg |-> NoArgs, entry |-> <<>>,
   kept |-> <<>>, rest |-> <<>>, seen |-> <<>>,
   acc |-> [tones |-> <<>>, themes |-> <<>>, brand_counts |-> EmptyCounter],
   outcome |-> "none", result |-> [raised |-> "none"]]

\* Each thread holds a list: the same one (list 1) or one of its own.
InitThreads ==
  /\ KpiIdle
  /\ \E l \in {1, 2} :
       /\ lists \in [1..l -> ThreadLists]
       /\ runs = [t \in ThreadIds |-> IdleRun(IF t = 1 THEN 1 ELSE l)]
  /\ module_stop_words = stop_words
  /\ PageIdle
  /\ LlmIdle
  /\ ScraperIdle

\* Lines 150-162 in thread t: the time filter, the early return, the
\* accumulators.
RunStart(t) ==
  LET run == runs[t]
      cfg == ThreadConfig[t]
      held == lists[run.list]
      positions == IF Truthy(cfg.hours) THEN filter_by_hours(held, cfg.hours)
                   ELSE [i \in 1..Len(held) |-> i]
  IN  /\ run.status \in {"idle", "done"}
      /\ run.calls < MaxCalls
      /\ runs' = [runs EXCEPT ![t] =
           [list |-> run.list, calls |-> run.calls + 1,
            status |-> IF positions = <<>> THEN "done" ELSE "loop",
            cfg |-> cfg, entry |-> held, kept |-> positions, rest |-> positions,
            acc |-> StartAcc(run.acc), seen |-> <<>>,
            outcome |-> IF positions = <<>> THEN "returned" ELSE "none",
            result |-> IF positions = <<>> THEN EmptyResult(cfg.brand)
                       ELSE [raised |-> "none"]]]
      /\ UNCHANGED <<lists, module_stop_words>>
      /\ UNCHANGED <<kpi_vars, page_vars, llm, scraper_vars>>

\* the run of thread t after the loop body has run over the mention it read
StepOf(run, read, p) ==
  IF p.raised
    THEN [run EXCEPT !.status = "done", !.outcome = "raised",
                     !.result = [raised |-> "TypeError"],
                     !.seen = Append(run.seen, read)]
    ELSE [run EXCEPT !.rest = Tail(run.rest),
                     !.seen = Append(run.seen, read),
                     !.acc = [tones |-> Append(run.acc.tones, p.item.sentiment),
                              themes |-> Append(run.acc.themes, p.item.theme),
                              brand_counts |-> CounterAddAll(run.acc.brand_counts, p.mentions)]]

\* One pass of the loop body (lines 165-204) in thread t, over the mention as
\* the list holds it now; the backfill is written into the list.
RunStep(t) ==
  LET run == runs[t]
      pos == Head(run.rest)
      read == lists[run.list][pos]
  IN  /\ run.status = "loop"
      /\ run.rest # <<>>
      /\ \E p \in { ProcessItem(read, <<run.cfg.brand>> \o run.cfg.competitors) } :
           /\ runs' = [runs EXCEPT ![t] = StepOf(run, read, p)]
           /\ lists' = [lists EXCEPT ![run.list][pos] = p.item]
      /\ UNCHANGED module_stop_words
      /\ UNCHANGED <<kpi_vars, page_vars, llm, scraper_vars>>

\* Lines 206-272 in thread t: the aggregates over the list as it is now.
RunFinish(t) ==
  LET run == runs[t]
      data == lists[run.list]
  IN  /\ run.status = "loop"
      /\ run.rest = <<>>
      /\ \E r \in { Aggregate(data, run.kept, [k \in 1..Len(run.kept) |-> data[run.kept[k]]],
                              run.acc.tones, run.acc.themes, run.acc.brand_counts,
                              run.cfg.campaign_messages,
                              FinalBrandList(<<run.cfg.brand>> \o run.cfg.competitors,
                                             run.acc.brand_counts, run.cfg.brand)) } :
           runs' = [runs EXCEPT ![t] =
                      [run EXCEPT !.status = "done", !.outcome = r.outcome,
                                  !.result = r.result]]
      /\ UNCHANGED <<lists, module_stop_words>>
      /\ UNCHANGED <<kpi_vars, page_vars, llm, scraper_vars>>

\* One call extract_keywords(all_text, brand, competitors), the n-th, made
\* between the steps of the runs.
ExtractCall(all_text, cfg) ==
  /\ (IF fn_args = NoCall THEN 0 ELSE fn_args.n) < MaxCalls
  /\ fn_args' = [fn |-> "extract_keywords", all_text |-> all_text, brand |-> cfg.brand,
                 competitors |-> cfg.competitors,
                 n |-> IF fn_args = NoCall THEN 1 ELSE fn_args.n + 1]
  /\ fn_value' = [fn |-> "extract_keywords",
                  value |-> extract_keywords_call(module_stop_words, all_text, cfg.brand,
                                                  cfg.competitors)]
  /\ module_stop_words' =
       StopWordsAfter(module_stop_words,
                      DynamicStopWordsOf(module_stop_words, cfg.brand, cfg.competitors))
  /\ UNCHANGED <<full_data, args, entry, kept, outcome, result, repeat>>
  /\ UNCHANGED <<lists, runs>>
  /\ UNCHANGED <<page_vars, llm, scraper_vars>>

NextThreads ==
  \/ \E t \in ThreadIds : RunStart(t)
  \/ \E t \in ThreadIds : RunStep(t)
  \/ \E t \in ThreadIds : RunFinish(t)
  \/ \E t \in ThreadIds : ExtractCall(TextWins, ThreadConfig[t])

SpecThreads ==
  InitThreads /\ [][NextThreads]_vars


\* ------------------------------------------- the dashboard's analysis run

\* [b for b in [brand]+competitors if b.lower() in item['text'].lower()]
\* (scraper.py line 306)
RECURSIVE TaggedBrands(_, _)
TaggedBrands(text, names) ==
  IF names = <<>> THEN <<>>
  ELSE IF Contains(Lower(text), Lower(Head(names)))
    THEN <<Head(names)>> \o TaggedBrands(text, Tail(names))
    ELSE TaggedBrands(text, Tail(names))

\* A mention as scraper.fetch_all returns it for a request.
Scraped(text, cfg) ==
  [Base(text) EXCEPT !.source = Str(News), !.date = Ts(Now - 1), !.authority = Num(7),
                     !.reach = Num(1000),
                     !.mentioned_brands = List(TaggedBrands(text, <<cfg.brand>> \o cfg.competitors))]

\* The texts the scrapers find.
PageTexts ==
  { TextGreat, TextBad }

\* The longest list the scrapers or the demo file give.
MaxPageMentions ==
  2

\* the sequences of at most n different members of S
Injections(S, n) ==
  { f \in UNION { [1..k -> S] : k \in 1..n } : \A i, j \in DOMAIN f : f[i] = f[j] => i = j }

\* What fetch_all returns as full_data: the deduplication of lines 298-307
\* leaves no text twice.
ScrapedLists(cfg) ==
  { [i \in DOMAIN texts |-> Scraped(texts[i], cfg)] : texts \in Injections(PageTexts, MaxPageMentions) }

\* The rows of the demo file: some carry a sentiment.
DemoMentions ==
  { [Base(TextGreat) EXCEPT !.source = Str(News), !.sentiment = Sym("positive")],
    [Base(TextBad) EXCEPT !.source = Str(News)] }

\* What demo_loader.load_data_from_csv() returns: the rows, or nothing.
DemoLists ==
  { <<>> } \cup Injections(DemoMentions, MaxPageMentions)

\* The values the model's JSON object holds for an id: a label, an empty
\* string, or a value that is no string.
LlmLabels ==
  { Sym("negative"), Sym(""), List(<<<<"p","o","s">>>>) }

\* What gemini_llm.get_batch_llm_sentiments returns for n items: a dict from
\* some of the ids to values ({} when the call failed). Ids are positions here.
SentimentMaps(n) ==
  UNION { [ids -> LlmLabels] : ids \in SUBSET (1..n) }

\* The requests of the page.
PageConfigs ==
  { [brand |-> Acme, competitors |-> <<Zeta>>, campaign_messages |-> <<MsgSave>>, hours |-> Num(24)],
    [brand |-> Zeta, competitors |-> <<>>, campaign_messages |-> <<>>, hours |-> Num(24)] }

\* sentiment_map.get(i)
MapGet(sentiment_map, i) ==
  IF i \in DOMAIN sentiment_map THEN sentiment_map[i] ELSE None

\* Mutant of ApplySentiment: a mention the map has no label for is left as the
\* scraper built it.
ApplySentiment_LeaveUnset(item, llm_sentiment) ==
  IF Truthy(llm_sentiment) THEN [item EXCEPT !.sentiment = llm_sentiment] ELSE item

\* item['sentiment'] = llm_sentiment if llm_sentiment else
\* analysis.analyze_sentiment_keywords(item.get('text', '')) (line 137)
ApplySentiment(item, llm_sentiment) ==
  [item EXCEPT !.sentiment =
     IF Truthy(llm_sentiment) THEN llm_sentiment
     ELSE Sym(SentimentOfText[Get(item.text, Str(<<>>))])]

\* the loop of lines 134-137 over temp_data
ApplySentiments(temp_data, sentiment_map) ==
  [i \in DOMAIN temp_data |-> ApplySentiment(temp_data[i], MapGet(sentiment_map, i))]

\* " ".join([item.get("text", "") for item in full_data]) (line 177)
AllTextRaises(data) ==
  \E i \in DOMAIN data : Get(data[i].text, Str(<<>>)).t # "str"

AllText(data) ==
  IF data = <<>> THEN <<>>
  ELSE JoinWords([i \in DOMAIN data |-> Get(data[i].text, Str(<<>>)).s])

\* Lines 164-193 once full_data is stored: r is what compute_kpis did. When it
\* or the join of line 177 raises, the except of line 192 ends the run and the
\* session keeps what it had.
CommonSteps(session, mode, cfg, r) ==
  IF r.outcome = "raised"
    THEN [session EXCEPT !.full_data = r.data, !.analysis_mode = mode]
  ELSE IF AllTextRaises(r.data)
    THEN [session EXCEPT !.full_data = r.data, !.analysis_mode = mode, !.kpis = r.result]
  ELSE [full_data |-> r.data, analysis_mode |-> mode, kpis |-> r.result,
        top_keywords |-> List(extract_keywords(AllText(r.data), cfg.brand, cfg.competitors))]

\* what a run that stored the list `stored` leaves
AfterStore(mode, cfg, scraped, sentiment_map, stored) ==
  \E r \in { compute_kpis(stored, cfg.campaign_messages, cfg.brand, cfg.competitors, cfg.hours) } :
    /\ session_state' = CommonSteps(session_state, mode, cfg, r)
    /\ run_log' = [fn |-> "run_smart_analysis", cfg |-> cfg, mode |-> mode,
                   temp_data |-> scraped, sentiment_map |-> sentiment_map,
                   stored |-> stored, returned |-> TRUE, kpis |-> r.outcome]

\* run_smart_analysis when the scrapers found mentions: lines 107-146, then the
\* common steps.
RunLive(cfg, scraped, sentiment_map) ==
  /\ AfterStore("LIVE", cfg, scraped, sentiment_map, ApplySentiments(scraped, sentiment_map))
  /\ UNCHANGED <<kpi_vars, thread_vars, llm, scraper_vars>>

\* run_smart_analysis when the live attempt failed: lines 149-161, then the
\* common steps; st.stop() ends the script when the demo file gives nothing.
RunDemo(cfg, demo) ==
  /\ IF demo = <<>>
       THEN /\ session_state' = [session_state EXCEPT !.analysis_mode = "Initializing..."]
            /\ run_log' = [fn |-> "run_smart_analysis", cfg |-> cfg, mode |-> "DEMO",
                           temp_data |-> <<>>, sentiment_map |-> <<>>,
                           stored |-> <<>>, returned |-> FALSE, kpis |-> "none"]
       ELSE AfterStore("DEMO", cfg, <<>>, <<>>, demo)
  /\ UNCHANGED <<kpi_vars, thread_vars, llm, scraper_vars>>

InitPage ==
  /\ KpiIdle
  /\ ThreadsIdle
  /\ PageIdle
  /\ LlmIdle
  /\ ScraperIdle

NextPage ==
  \/ \E cfg \in PageConfigs : \E scraped \in ScrapedLists(cfg) :
       \E sentiment_map \in SentimentMaps(Len(scraped)) : RunLive(cfg, scraped, sentiment_map)
  \/ \E cfg \in PageConfigs, demo \in DemoLists : RunDemo(cfg, demo)

SpecPage ==
  InitPage /\ [][NextPage]_vars


\* ------------------------------------------------------ the theme backfill

ThemeLists ==
  { <<m>> : m \in ThemeMentions }

ThemeConfigs ==
  { [brand |-> Acme, competitors |-> <<>>, campaign_messages |-> <<>>, hours |-> None] }

InitThemes ==
  /\ full_data \in ThemeLists
  /\ args = NoArgs
  /\ entry = <<>>
  /\ kept = <<>>
  /\ outcome = "none"
  /\ result = [raised |-> "none"]
  /\ repeat = FALSE
  /\ fn_args = NoCall
  /\ fn_value = NoCall
  /\ RestIdle

NextThemes ==
  \E cfg \in ThemeConfigs : ComputeKpis(cfg)

SpecThemes ==
  InitThemes /\ [][NextThemes]_vars


\* ------------------------------------------- the ten most common phrases

\* "rates loans cards funds stock trade price value yield asset": ten words
BaseWords ==
  <<<<"r","a","t","e","s">>, <<"l","o","a","n","s">>, <<"c","a","r","d","s">>, <<"f","u","n","d","s">>, <<"s","t","o","c","k">>, <<"t","r","a","d","e">>, <<"p","r","i","c","e">>, <<"v","a","l","u","e">>, <<"y","i","e","l","d">>, <<"a","s","s","e","t">>>>

\* The words put before and after the ten: the first two of them and a new one.
ExtraWords ==
  { <<"r","a","t","e","s">>, <<"l","o","a","n","s">>, <<"b","o","n","u","s">> }

\* The most words put before the ten, and after them.
MaxExtraWords ==
  2

ExtraRuns ==
  UNION { [1..n -> ExtraWords] : n \in 0..MaxExtraWords }

LongCorpora ==
  { JoinWords(before \o BaseWords \o after) : before \in ExtraRuns, after \in ExtraRuns }

InitTopKeywords ==
  /\ full_data = <<>>
  /\ args = NoArgs
  /\ entry = <<>>
  /\ kept = <<>>
  /\ outcome = "none"
  /\ result = [raised |-> "none"]
  /\ repeat = FALSE
  /\ fn_args \in { [fn |-> "extract_keywords", all_text |-> t, brand |-> Acme,
                    competitors |-> <<Zeta>>] : t \in LongCorpora }
  /\ fn_value = NoCall
  /\ RestIdle

NextTopKeywords ==
  ExtractKeywords

SpecTopKeywords ==
  InitTopKeywords /\ [][NextTopKeywords]_vars


\* ------------------------------- bedrock.get_batch_llm_sentiments

\* max_retries (line 134)
max_retries ==
  5

\* str(e) of the json.JSONDecodeError that json.loads raises on a text that is
\* no JSON: "Expecting value: line 1 column 1 (char 0)"
JsonDecodeMessage ==
  <<"E","x","p","e","c","t","i","n","g"," ","v","a","l","u","e",":"," ","l","i","n","e"," ","1"," ","c","o","l","u","m","n"," ","1"," ","(","c","h","a","r"," ","0",")">>

\* str(e) of errors of the API call: "503 Service Unavailable" and
\* "400 Invalid JSON payload received"
UnavailableMessage ==
  <<"5","0","3"," ","S","e","r","v","i","c","e"," ","U","n","a","v","a","i","l","a","b","l","e">>

PayloadMessage ==
  <<"4","0","0"," ","I","n","v","a","l","i","d"," ","J","S","O","N"," ","p","a","y","l","o","a","d"," ","r","e","c","e","i","v","e","d">>

\* What one model.generate_content call can bring: a response that finished
\* with STOP and whose text is the JSON array of the schema, one that finished
\* with STOP and whose text is no JSON, one without candidates or with another
\* finish reason, and an exception of the API client.
LlmResponses ==
  { [kind |-> "response", finish |-> "STOP", parses |-> TRUE,
     items |-> <<[id |-> 0, sentiment |-> "positive"]>>],
    [kind |-> "response", finish |-> "STOP", parses |-> TRUE,
     items |-> <<[id |-> 0, sentiment |-> "negative"], [id |-> 1, sentiment |-> "mixed"]>>],
    [kind |-> "response", finish |-> "STOP", parses |-> FALSE, items |-> <<>>],
    [kind |-> "response", finish |-> "MAX_TOKENS", parses |-> FALSE, items |-> <<>>],
    [kind |-> "error", message |-> UnavailableMessage],
    [kind |-> "error", message |-> PayloadMessage] }

\* {item['id']: item['sentiment'] for item in response_json} (line 140): the
\* last item of an id gives its sentiment
SentimentMapOf(items) ==
  [id \in { items[i].id : i \in DOMAIN items } |->
     items[CHOOSE i \in DOMAIN items :
             items[i].id = id /\ \A j \in DOMAIN items : items[j].id = id => j <= i].sentiment]

\* What lines 118-142 do with what the call brought: "return" with the map,
\* "break", or "raise" with the message of the exception.
AttemptOutcome(r) ==
  IF r.kind = "error" THEN [does |-> "raise", message |-> r.message]
  ELSE IF r.finish # "STOP" THEN [does |-> "break"]
  ELSE IF ~r.parses THEN [does |-> "raise", message |-> JsonDecodeMessage]
  ELSE [does |-> "return", value |-> SentimentMapOf(r.items)]

\* "json" in str(e).lower() (line 146)
MentionsJson(message) ==
  Contains(Lower(message), <<"j","s","o","n">>)

\* the call when get_gemini_json_model() gave a model or None (lines 89-92)
LlmCall(available) ==
  /\ llm = NoCall
  /\ llm' = IF available
              THEN [fn |-> "get_batch_llm_sentiments", status |-> "loop", attempt |-> 0,
                    delay |-> 1, slept |-> <<>>, log |-> <<>>, value |-> <<>>]
              ELSE [fn |-> "get_batch_llm_sentiments", status |-> "returned", attempt |-> 0,
                    delay |-> 1, slept |-> <<>>, log |-> <<>>, value |-> <<>>]
  /\ UNCHANGED <<kpi_vars, thread_vars, page_vars, scraper_vars>>

\* the loop after an attempt that raised: break on a message that holds
\* "json", else sleep, double the delay and go on to the next attempt
AfterRaise(run, message) ==
  IF MentionsJson(message) THEN [run EXCEPT !.status = "returned"]
  ELSE [run EXCEPT !.slept = Append(@, run.delay), !.delay = 2 * @, !.attempt = @ + 1,
                   !.status = IF run.attempt + 1 < max_retries THEN "loop" ELSE "returned"]

\* One pass of the for loop (lines 136-152): the call of the model and what
\* follows it.
LlmAttempt(r) ==
  /\ llm # NoCall
  /\ llm.status = "loop"
  /\ llm.attempt < max_retries
  /\ \E o \in { AttemptOutcome(r) } :
       \E run \in { [llm EXCEPT !.log = Append(@, r)] } :
         llm' = IF o.does = "return" THEN [run EXCEPT !.status = "returned", !.value = o.value]
                ELSE IF o.does = "break" THEN [run EXCEPT !.status = "returned"]
                ELSE AfterRaise(run, o.message)
  /\ UNCHANGED <<kpi_vars, thread_vars, page_vars, scraper_vars>>

InitLlm ==
  /\ KpiIdle
  /\ ThreadsIdle
  /\ PageIdle
  /\ LlmIdle
  /\ ScraperIdle

NextLlm ==
  \/ \E available \in BOOLEAN : LlmCall(available)
  \/ \E r \in LlmResponses : LlmAttempt(r)

SpecLlm ==
  InitLlm /\ [][NextLlm]_vars


\* ------------------------------------------------- scraper.fetch_all

\* the cache lifetime in seconds (line 273)
CacheTtl ==
  900

\* The seconds time.time() advances between two calls.
ClockStep ==
  450

\* The most advances of the clock.
MaxTicks ==
  3

\* str(n) for a natural number
RECURSIVE Decimal(_)
Decimal(n) ==
  IF n < 10 THEN <<SubSeq(<<"0","1","2","3","4","5","6","7","8","9">>, n + 1, n + 1)[1]>>
  ELSE Decimal(n \div 10) \o Decimal(n % 10)

\* sorted(names): by code point, repeated names kept
RECURSIVE InsertSorted(_, _)
InsertSorted(sorted, name) ==
  IF sorted = <<>> THEN <<name>>
  ELSE IF StrLess(name, Head(sorted)) THEN <<name>> \o sorted
  ELSE <<Head(sorted)>> \o InsertSorted(Tail(sorted), name)

RECURSIVE Sorted(_)
Sorted(names) ==
  IF names = <<>> THEN <<>>
  ELSE InsertSorted(Sorted(SubSeq(names, 1, Len(names) - 1)), names[Len(names)])

\* ",".join(names)
RECURSIVE JoinComma(_)
JoinComma(names) ==
  IF names = <<>> THEN <<>>
  ELSE IF Len(names) = 1 THEN names[1]
  ELSE names[1] \o <<",">> \o JoinComma(Tail(names))

\* _get_cache_key(brand, hours, competitors) (lines 78-80)
_get_cache_key(brand, hours, competitors) ==
  Lower(brand) \o <<"|">> \o Decimal(hours) \o <<"|">>
    \o (IF competitors # <<>> THEN JoinComma(Sorted(competitors)) ELSE <<>>)

\* "finance" and "tech", two keys of RSS_FEEDS_BY_INDUSTRY
Finance ==
  <<"f","i","n","a","n","c","e">>

Tech ==
  <<"t","e","c","h">>

\* The requests of the model.
FetchRequests ==
  { [brand |-> b, time_frame |-> 24, competitors |-> c, industry |-> i] :
      b \in {Acme, ACME}, c \in {<<>>, <<Zeta>>}, i \in {Finance, Tech} }

\* What the scrapers find for a request: fetch_rss reads the feeds of the
\* industry (line 219), so the finance feeds bring one text and the tech feeds
\* another.
RunScrapers(request) ==
  LET text == IF request.industry = Finance THEN TextGreat ELSE TextBad
      cfg == [brand |-> request.brand, competitors |-> request.competitors]
  IN  [mentions |-> <<text>>, full_data |-> <<Scraped(text, cfg)>>]

\* One call fetch_all(brand, time_frame, competitors, industry). An entry of
\* the cache holds ts and value as the file does; `by`, the request that wrote
\* it, is kept with it for the claims and is never read by the call.
FetchAll(request) ==
  LET key == _get_cache_key(request.brand, request.time_frame, request.competitors)
      hit == key \in DOMAIN cache /\ clock - cache[key].ts < CacheTtl
      fresh == RunScrapers(request)
  IN  /\ fetch_log' = [fn |-> "fetch_all", request |-> request, at |-> clock, key |-> key,
                       hit |-> hit,
                       found |-> IF key \in DOMAIN cache THEN cache[key] ELSE NoCall,
                       value |-> IF hit THEN cache[key].value ELSE fresh]
      /\ cache' = IF hit THEN cache
                  ELSE [k \in DOMAIN cache \cup {key} |->
                          IF k = key THEN [ts |-> clock, value |-> fresh, by |-> request]
                          ELSE cache[k]]
      /\ UNCHANGED clock
      /\ UNCHANGED <<kpi_vars, thread_vars, page_vars, llm>>

\* time passes
Tick ==
  /\ clock < MaxTicks * ClockStep
  /\ clock' = clock + ClockStep
  /\ UNCHANGED <<cache, fetch_log>>
  /\ UNCHANGED <<kpi_vars, thread_vars, page_vars, llm>>

InitScraper ==
  /\ KpiIdle
  /\ ThreadsIdle
  /\ PageIdle
  /\ LlmIdle
  /\ ScraperIdle

NextScraper ==
  \/ \E request \in FetchRequests : FetchAll(request)
  \/ Tick

SpecScraper ==
  InitScraper /\ [][NextScraper]_vars

\* ------------------------------------------------------------ the claims

\* the mentions the last call processed, as the call left them
Processed ==
  [k \in 1..Len(kept) |-> full_data[kept[k]]]

\* the same mentions as they were when the call began
ProcessedOnEntry ==
  [k \in 1..Len(kept) |-> entry[kept[k]]]

\* the brand names a mention carries in mentioned_brands
NamesOf(item) ==
  IF item.mentioned_brands.t = "str" THEN <<item.mentioned_brands.s>>
  ELSE IF item.mentioned_brands.t = "list" THEN item.mentioned_brands.l
  ELSE <<>>

\* how often name occurs in the mentioned_brands of the processed mentions
Occurrences(name) ==
  SumSeq([k \in 1..Len(kept) |->
            Cardinality({ j \in DOMAIN NamesOf(Processed[k]) : NamesOf(Processed[k])[j] = name })])

TotalOccurrences ==
  SumSeq([k \in 1..Len(kept) |-> Len(NamesOf(Processed[k]))])

\* a brand's share of all brand occurrences, 0 when there is none
Share(name) ==
  IF TotalOccurrences > 0 THEN Ratio(Occurrences(name) * 100, TotalOccurrences) ELSE Zero

\* the time filter of the last call dropped every mention of a non-empty list
EmptiedByFilter ==
  /\ entry # <<>>
  /\ Truthy(args.hours)
  /\ \A i \in DOMAIN entry :
       /\ entry[i].date.t \in {"ts", "date"}
       /\ entry[i].date.h < Now - args.hours.i

\* sum of the numerators of a map of ratios
RECURSIVE NumSum(_)
NumSum(f) ==
  IF DOMAIN f = {} THEN 0
  ELSE LET k == CHOOSE k \in DOMAIN f : TRUE
       IN  f[k].num + NumSum([x \in DOMAIN f \ {k} |-> f[x]])

\* C1: in every returned result, the empty terminal case included, sov has as
\* many entries as all_brands and sov[i] is the share of all_brands[i].
C1_SovParallel ==
  outcome = "returned" =>
    /\ Len(result.sov) = Len(result.all_brands)
    /\ \A i \in DOMAIN result.sov : result.sov[i] = Share(result.all_brands[i])

\* C2: compute_kpis never raises, whatever fields of a mention are missing,
\* null or of a non-numeric / non-text form.
C2_NeverRaises ==
  outcome # "raised"

\* C3: when compute_kpis returns for a list that is non-empty after filtering,
\* every mention of analyzed_data has a non-null sentiment, theme and
\* mentioned_brands, and analyzed_data is the processed mentions themselves.
C3_BackfilledNonNull ==
  (outcome = "returned" /\ kept # <<>>) =>
    /\ result.analyzed_data = Processed
    /\ \A k \in DOMAIN result.analyzed_data :
         LET item == result.analyzed_data[k]
         IN  /\ item.sentiment.t \notin {"absent", "none"}
             /\ item.theme.t \notin {"absent", "none"}
             /\ item.mentioned_brands.t \notin {"absent", "none"}

\* C3 witness: a call returned after processing a mention that came in with a
\* null sentiment, an empty theme and no mentioned_brands.
C3_Witness ==
  /\ outcome = "returned"
  /\ \E k \in DOMAIN kept :
       /\ ProcessedOnEntry[k].sentiment = None
       /\ ProcessedOnEntry[k].theme = Sym("")
       /\ ProcessedOnEntry[k].mentioned_brands = Absent

\* a field that carries no value: missing, null or empty
AbsentOrEmpty(v) ==
  ~Truthy(v) /\ v.t \in {"absent", "none", "str", "sym", "list"}

\* C4: a call (returning or raising) leaves the caller's list with the same
\* mentions, changes no field but sentiment, theme and mentioned_brands, and
\* changes each of these three only where it was absent or empty on entry.
C4_Frame ==
  outcome # "none" =>
    /\ Len(full_data) = Len(entry)
    /\ \A i \in DOMAIN entry :
         /\ \A f \in {"text", "source", "date", "authority", "reach", "likes", "comments"} :
              full_data[i][f] = entry[i][f]
         /\ \A f \in {"sentiment", "theme", "mentioned_brands"} :
              full_data[i][f] # entry[i][f] => AbsentOrEmpty(entry[i][f])

\* C4 witness: a call backfilled the mentioned_brands of a mention and kept the
\* sentiment and theme that had been supplied with it.
C4_Witness ==
  /\ outcome = "returned"
  /\ \E i \in DOMAIN entry :
       /\ entry[i].sentiment = Sym("positive")
       /\ entry[i].theme = Sym("Corporate")
       /\ entry[i].mentioned_brands = Absent
       /\ full_data[i].mentioned_brands.t = "list"
       /\ full_data[i].sentiment = Sym("positive")

\* C5: for a non-empty processed list every mention is counted under exactly
\* one label of sentiment_ratio, so that the percentages sum to 100; for an
\* empty one sentiment_ratio is the empty map.
C5_SentimentRatioSums ==
  outcome = "returned" =>
    IF kept = <<>> THEN DOMAIN result.sentiment_ratio = {}
    ELSE LET sr == result.sentiment_ratio
         IN  /\ \A k \in DOMAIN kept : Processed[k].sentiment \in DOMAIN sr
             /\ \A l \in DOMAIN sr :
                  /\ sr[l].den = Len(kept)
                  /\ sr[l].num
                       = 100 * Cardinality({ k \in DOMAIN kept : Processed[k].sentiment = l })
             /\ NumSum(sr) = 100 * Len(kept)

\* C5 witness: a result over two mentions that share one sentiment label.
C5_Witness ==
  /\ outcome = "returned"
  /\ Len(kept) = 2
  /\ Processed[1].sentiment = Processed[2].sentiment

\* C6: for a non-empty processed list the sov entries sum to 100 when a brand
\* occurrence was counted, and are all 0 when none was.
C6_SovSums ==
  (outcome = "returned" /\ kept # <<>>) =>
    IF TotalOccurrences > 0
      THEN /\ \A i \in DOMAIN result.sov : result.sov[i].den = TotalOccurrences
           /\ SumSeq([i \in DOMAIN result.sov |-> result.sov[i].num]) = 100 * TotalOccurrences
      ELSE \A i \in DOMAIN result.sov : result.sov[i].num = 0

\* C6 witness: a result that counts a name found only in the data next to a
\* configured name.
C6_Witness ==
  /\ outcome = "returned"
  /\ Occurrences(ACME) > 0
  /\ Occurrences(Zeta) > 0
  /\ args.brand = Acme

\* the KPI fields of a result that the idempotence claim compares
ComparedFields ==
  {"sentiment_ratio", "theme_ratio", "all_brands", "sov", "mis", "mpi",
   "engagement_rate", "reach"}

\* C7: with no hours filter, a call that repeats the arguments of the call that
\* returned before it returns the same KPIs and changes no mention.
C7_Idempotent ==
  [][ (outcome = "returned" /\ ~Truthy(args.hours) /\ args' = args)
        => /\ outcome' = "returned"
           /\ full_data' = full_data
           /\ \A f \in ComparedFields :
                /\ (f \in DOMAIN result') = (f \in DOMAIN result)
                /\ f \in DOMAIN result => result'[f] = result[f] ]_vars

\* C7 witness: a second call with the same arguments and no hours filter has
\* returned for a list whose first mention the first call had to backfill.
C7_Witness ==
  /\ repeat
  /\ outcome = "returned"
  /\ ~Truthy(args.hours)
  /\ Len(entry) = 2
  /\ entry[1].text = Str(TextGreat)
  /\ entry[1].mentioned_brands.t = "list"
  /\ entry[1].mentioned_brands.l # <<>>

\* C8: for a list that is empty, or that the time filter empties, the call
\* returns the empty terminal result with all_brands = [brand], and modifies
\* no mention.
C8_EmptyResult ==
  (outcome # "none" /\ (entry = <<>> \/ EmptiedByFilter)) =>
    /\ outcome = "returned"
    /\ DOMAIN result.sentiment_ratio = {}
    /\ result.sov = <<>>
    /\ result.mis = 0
    /\ result.mpi.num = 0
    /\ result.engagement_rate.num = 0
    /\ result.reach = 0
    /\ result.all_brands = <<args.brand>>
    /\ full_data = entry

\* C8 witness: a call with competitors and campaign messages whose time filter
\* dropped every mention of a non-empty list.
C8_Witness ==
  /\ outcome = "returned"
  /\ EmptiedByFilter
  /\ args.competitors # <<>>
  /\ args.campaign_messages # <<>>

\* the fields of a KPI Result
KpiFields ==
  {"sentiment_ratio", "theme_ratio", "all_brands", "sov", "mis", "mpi",
   "engagement_rate", "reach", "analyzed_data"}

\* C9: every returned value, the empty terminal case included, carries all the
\* fields of a KPI Result.
C9_WellFormed ==
  outcome = "returned" => DOMAIN result = KpiFields

\* C10, for the results over at least one processed mention: the tracked brand
\* is the first element of all_brands, and all_brands holds, without
\* duplicates, exactly the brand, the competitors and every name of a
\* processed mention's mentioned_brands.
C10_AllBrands ==
  (outcome = "returned" /\ kept # <<>>) =>
    /\ result.all_brands[1] = args.brand
    /\ \A i, j \in DOMAIN result.all_brands :
         result.all_brands[i] = result.all_brands[j] => i = j
    /\ Range(result.all_brands)
         = {args.brand} \cup Range(args.competitors)
             \cup UNION { Range(NamesOf(Processed[k])) : k \in DOMAIN kept }

\* C11: in every result over a non-empty processed list, the entries of
\* all_brands that follow the tracked brand are in case-insensitive
\* alphabetical order ('apple' before 'Zeta').
C11_CaseInsensitiveOrder ==
  (outcome = "returned" /\ kept # <<>>) =>
    \A b, i, j \in DOMAIN result.all_brands :
      (result.all_brands[b] = args.brand /\ b < i /\ i < j) =>
        ~StrLess(Lower(result.all_brands[j]), Lower(result.all_brands[i]))

\* kw stands in text as a whole word: it is there, and neither the character
\* before it nor the character after it is a letter, a digit or '_'
WholeWord(kw, text) ==
  \E i \in 0..(Len(text) - Len(kw)) :
    /\ \A j \in 1..Len(kw) : text[i + j] = kw[j]
    /\ i = 0 \/ ~IsWordChar(text[i])
    /\ i + Len(kw) = Len(text) \/ ~IsWordChar(text[i + Len(kw) + 1])

\* a keyword of the list stands in the text (case-insensitively) as a whole word
HasKeyword(kws, text) ==
  \E k \in DOMAIN kws : WholeWord(kws[k], Lower(text))

\* the label the precedence anger > mixed > negative > positive > appreciation
\* > neutral gives a text, from the keyword classes that occur in it
LabelByPrecedence(anger, positive, negative, connective, appreciation) ==
  IF anger THEN "anger"
  ELSE IF (positive /\ negative) \/ (connective /\ (positive \/ negative)) THEN "mixed"
  ELSE IF negative THEN "negative"
  ELSE IF positive THEN "positive"
  ELSE IF appreciation THEN "appreciation"
  ELSE "neutral"

\* the text analyze_sentiment_keywords was called with, '' for None
SentimentText ==
  IF fn_args.text.t = "str" THEN fn_args.text.s ELSE <<>>

SentimentCalled ==
  fn_value # NoCall /\ fn_value.fn = "analyze_sentiment_keywords"

\* C12: analyze_sentiment_keywords returns the label the precedence anger >
\* mixed > negative > positive > appreciation > neutral gives to the keyword
\* classes that occur in the text; a text with an anger keyword is 'anger',
\* and an empty or None text is 'neutral'.
C12_Precedence ==
  SentimentCalled =>
    fn_value.value =
      LabelByPrecedence(HasKeyword(anger_kws, SentimentText),
                        HasKeyword(positive_kws, SentimentText),
                        HasKeyword(negative_kws, SentimentText),
                        HasKeyword(mixed_kws, SentimentText),
                        HasKeyword(appreciation_kws, SentimentText))

\* C13 as stated: a text with a positive and a negative keyword as whole
\* words, or with a mixed connective and a positive keyword, is 'mixed'.
C13_Mixed ==
  (SentimentCalled
     /\ HasKeyword(positive_kws, SentimentText)
     /\ (HasKeyword(negative_kws, SentimentText) \/ HasKeyword(mixed_kws, SentimentText)))
    => fn_value.value = "mixed"

\* C13 amended: such a text is 'mixed' when no anger keyword is matched in it
\* between word boundaries.
C13_MixedUnlessAnger ==
  (SentimentCalled
     /\ HasKeyword(positive_kws, SentimentText)
     /\ (HasKeyword(negative_kws, SentimentText) \/ HasKeyword(mixed_kws, SentimentText))
     /\ \A k \in DOMAIN anger_kws : ~WordSearch(anger_kws[k], Lower(SentimentText)))
    => fn_value.value = "mixed"

\* a text with a connective and a positive keyword, no negative and no anger
\* keyword, was classified 'mixed'
C13_Witness ==
  /\ SentimentCalled
  /\ HasKeyword(positive_kws, SentimentText)
  /\ HasKeyword(mixed_kws, SentimentText)
  /\ ~HasKeyword(negative_kws, SentimentText)
  /\ ~HasKeyword(anger_kws, SentimentText)
  /\ fn_value.value = "mixed"

ExtractCalled ==
  fn_value # NoCall /\ fn_value.fn = "extract_keywords"

\* C14: no phrase extract_keywords returns is the brand name or a competitor
\* name in lower case, whether the name has one word or several.
C14_NoBrandNames ==
  ExtractCalled =>
    \A i \in DOMAIN fn_value.value :
      /\ fn_value.value[i].phrase # Lower(fn_args.brand)
      /\ \A c \in DOMAIN fn_args.competitors :
           fn_value.value[i].phrase # Lower(fn_args.competitors[c])

FilterCalled ==
  fn_value # NoCall /\ fn_value.fn = "filter_by_hours"

\* the date of a mention can be parsed
Parseable(item) ==
  item.date.t \in {"ts", "date", "tsz", "datez"}

\* the instant of a parseable date in UTC hours, a time without timezone
\* being taken as UTC
InstantOf(date) ==
  IF date.t \in {"tsz", "datez"} THEN date.h - date.off ELSE date.h

\* a mention filter_by_hours has to return under a window of the given hours
InWindow(item, hours) ==
  ~Parseable(item) \/ InstantOf(item.date) >= Now - hours

\* the positions among the first n of data that are in the window, increasing
RECURSIVE PositionsInWindow(_, _, _)
PositionsInWindow(data, n, hours) ==
  IF n = 0 THEN <<>>
  ELSE IF InWindow(data[n], hours) THEN Append(PositionsInWindow(data, n - 1, hours), n)
  ELSE PositionsInWindow(data, n - 1, hours)

\* C15: with a non-zero hours, filter_by_hours returns, in input order, exactly
\* the mentions whose date cannot be parsed or whose instant is >= now - hours.
C15_Window ==
  (FilterCalled /\ Truthy(fn_args.hours)) =>
    fn_value.value
      = PositionsInWindow(fn_args.full_data, Len(fn_args.full_data), fn_args.hours.i)

\* a call with a window kept a mention of unparseable date and dropped a
\* mention dated before the cutoff
C15_Witness ==
  /\ FilterCalled
  /\ Truthy(fn_args.hours)
  /\ \E i \in DOMAIN fn_args.full_data :
       /\ ~Parseable(fn_args.full_data[i])
       /\ i \in Range(fn_value.value)
  /\ \E i \in DOMAIN fn_args.full_data :
       /\ Parseable(fn_args.full_data[i])
       /\ i \notin Range(fn_value.value)

\* C16: with hours None or 0, filter_by_hours returns its input list as it is,
\* and a compute_kpis that returns has processed every mention of its input,
\* whatever the dates.
C16_NoWindow ==
  /\ (FilterCalled /\ ~Truthy(fn_args.hours)) =>
       fn_value.value = [i \in 1..Len(fn_args.full_data) |-> i]
  /\ (outcome = "returned" /\ ~Truthy(args.hours)) =>
       /\ kept = [i \in 1..Len(entry) |-> i]
       /\ entry # <<>> => result.analyzed_data = full_data

\* with hours = 0, filter_by_hours returned a list with a mention dated two
\* days back, and compute_kpis processed such a mention
C16_Witness ==
  /\ FilterCalled
  /\ fn_args.hours = Num(0)
  /\ \E i \in Range(fn_value.value) :
       Parseable(fn_args.full_data[i]) /\ InstantOf(fn_args.full_data[i].date) < Now - 24
  /\ outcome = "returned"
  /\ args.hours = Num(0)
  /\ \E k \in DOMAIN kept :
       Parseable(entry[kept[k]]) /\ InstantOf(entry[kept[k]].date) < Now - 24

\* a counter (likes, comments) is missing or null
NoCounter(field) ==
  field.t \in {"absent", "none"}

\* a counter is missing or can be coerced to an integer
Coercible(field) ==
  NoCounter(field) \/ PyInt(field).ok

\* the integer a coercible counter stands for, 0 when it is missing
CounterValue(field) ==
  IF NoCounter(field) THEN 0 ELSE PyInt(field).v

\* the integer a counter stands for when anything non-coercible is taken as 0
ZeroFilled(field) ==
  IF Coercible(field) THEN CounterValue(field) ELSE 0

\* the positions of the processed mentions that come from a social source
SocialPositions ==
  { k \in DOMAIN Processed : IsSocial(Processed[k]) }

\* the positions of the social mentions whose likes and comments both coerce
CoerciblePositions ==
  { k \in SocialPositions :
      Coercible(Processed[k].likes) /\ Coercible(Processed[k].comments) }

\* C17: engagement_rate is the sum of likes + comments over the social
\* mentions whose two counters coerce, divided by their number; a social
\* mention with a counter that does not coerce is in neither, a missing
\* counter is 0, and the rate is 0 when no mention qualifies.
C17_EngagementRate ==
  outcome = "returned" =>
    result.engagement_rate =
      IF CoerciblePositions = {} THEN Zero
      ELSE Ratio(SumSeq([k \in DOMAIN Processed |->
                           IF k \in CoerciblePositions
                             THEN CounterValue(Processed[k].likes)
                                    + CounterValue(Processed[k].comments)
                             ELSE 0]),
                 Cardinality(CoerciblePositions))

\* a returned rate over a social mention that counts, with a missing counter or
\* a numeric string, next to a social mention left out for its counter
C17_Witness ==
  /\ outcome = "returned"
  /\ CoerciblePositions # {}
  /\ SocialPositions \ CoerciblePositions # {}
  /\ result.engagement_rate.num > 0

\* the average of likes + comments over the given positions of the processed
\* mentions, a counter that does not coerce being 0
ZeroFilledRate(positions) ==
  IF positions = {} THEN Zero
  ELSE Ratio(SumSeq([k \in DOMAIN Processed |->
                       IF k \in positions
                         THEN ZeroFilled(Processed[k].likes) + ZeroFilled(Processed[k].comments)
                         ELSE 0]),
             Cardinality(positions))

ReachValue(field) ==
  IF field.t \in {"int", "str"} /\ PyInt(field).ok THEN PyInt(field).v ELSE 0

\* C19: reach is the sum over the processed mentions of reach coerced to
\* integer; a missing, NaN or non-numeric reach adds 0 and leaves what the
\* other mentions add as it is.
C19_Reach ==
  outcome = "returned" =>
    result.reach = SumSeq([k \in DOMAIN Processed |-> ReachValue(Processed[k].reach)])

\* a returned reach over a mention whose reach is no number followed by a
\* mention whose reach counts
C19_Witness ==
  /\ outcome = "returned"
  /\ \E j, k \in DOMAIN Processed :
       /\ j < k
       /\ Processed[j].reach.t = "str" /\ ~PyInt(Processed[j].reach).ok
       /\ ReachValue(Processed[k].reach) > 0
  /\ result.reach > 0

\* C20: mis is the sum of authority, 5 where the field is missing, over the
\* processed mentions whose sentiment after backfill is positive or
\* appreciation; the other mentions add nothing.
C20_Mis ==
  outcome = "returned" =>
    result.mis =
      SumSeq([k \in DOMAIN Processed |->
                IF Processed[k].sentiment \in {Sym("positive"), Sym("appreciation")}
                  THEN (IF Processed[k].authority.t = "absent" THEN 5
                        ELSE Processed[k].authority.i)
                  ELSE 0])

\* a returned mis over an appreciation mention without authority and a
\* mention of another sentiment that has an authority
C20_Witness ==
  /\ outcome = "returned"
  /\ \E k \in DOMAIN Processed :
       Processed[k].sentiment = Sym("appreciation") /\ Processed[k].authority.t = "absent"
  /\ \E k \in DOMAIN Processed :
       /\ Processed[k].sentiment \notin {Sym("positive"), Sym("appreciation")}
       /\ Processed[k].authority.t = "int"
  /\ result.mis = 5

\* the processed mentions whose lower-cased text holds a lower-cased campaign
\* message of the last call
MessageMentions ==
  { k \in DOMAIN Processed :
      \E m \in DOMAIN args.campaign_messages :
        Contains(Lower(IF Processed[k].text.t = "str" THEN Processed[k].text.s ELSE <<>>),
                 Lower(args.campaign_messages[m])) }

\* C21: mpi is 0 without campaign messages; otherwise it is 100 times the
\* number of processed mentions whose lower-cased text contains a lower-cased
\* message, over the number of processed mentions, each mention counted once,
\* so that 0 <= mpi <= 100.
C21_Mpi ==
  (outcome = "returned" /\ kept # <<>>) =>
    /\ result.mpi = IF args.campaign_messages = <<>> THEN Zero
                    ELSE Ratio(100 * Cardinality(MessageMentions), Len(kept))
    /\ 0 <= result.mpi.num
    /\ result.mpi.num <= 100 * result.mpi.den

\* a returned mpi over a mention that holds two of the messages and a mention
\* that holds none
C21_Witness ==
  /\ outcome = "returned"
  /\ Len(args.campaign_messages) = 2
  /\ \E k \in MessageMentions :
       \A m \in DOMAIN args.campaign_messages :
         Contains(Lower(Processed[k].text.s), Lower(args.campaign_messages[m]))
  /\ DOMAIN Processed \ MessageMentions # {}
  /\ result.mpi = Ratio(100, 2)

\* what the run of thread t returns when it runs alone on the list as it was
\* when the run began
SoloOf(run) ==
  compute_kpis(run.entry, run.cfg.campaign_messages, run.cfg.brand,
               run.cfg.competitors, run.cfg.hours)

\* the run of thread t has returned something else than it returns alone
DiffersFromSolo(run) ==
  /\ run.status = "done"
  /\ (run.outcome # SoloOf(run).outcome \/ run.result # SoloOf(run).result)

\* the run read a mention that had been written since the run began
ReadAWrite(run) ==
  \E k \in DOMAIN run.seen : run.seen[k] # run.entry[run.kept[k]]

\* C22: two compute_kpis runs that share a mention list interfere, and only
\* through the in-place backfill: a run returns something else than it returns
\* alone on the list only when it read a mention that the other run had
\* written since this run began.
C22_SharedList ==
  (runs # <<>> /\ runs[1].list = runs[2].list)
    => \A t \in ThreadIds : DiffersFromSolo(runs[t]) => ReadAWrite(runs[t])

\* a run on a shared list returned, with all_brands and sov that differ from
\* those it returns alone, while the other run was in its loop
C22_Witness ==
  /\ runs # <<>>
  /\ runs[1].list = runs[2].list
  /\ \E t \in ThreadIds :
       /\ runs[t].status = "done"
       /\ runs[t].outcome = "returned"
       /\ SoloOf(runs[t]).outcome = "returned"
       /\ runs[t].result.all_brands # SoloOf(runs[t]).result.all_brands
       /\ runs[t].result.sov # SoloOf(runs[t]).result.sov
       /\ runs[3 - t].status = "loop"
       /\ runs[3 - t].calls = 1
       /\ runs[t].calls = 1

\* C23: no state is shared across invocations. The module-level stop word set
\* is never changed; a call of extract_keywords returns what the same call
\* returns when it is the only call ever made, whatever calls came before it;
\* and a compute_kpis run on a list that no other thread holds returns what it
\* returns alone on that list, whatever the other thread does meanwhile and
\* whatever runs came before it.
C23_NoSharedState ==
  /\ module_stop_words = stop_words
  /\ (fn_value # NoCall /\ fn_value.fn = "extract_keywords")
       => fn_value.value = extract_keywords(fn_args.all_text, fn_args.brand,
                                            fn_args.competitors)
  /\ (runs # <<>> /\ runs[1].list # runs[2].list)
       => \A t \in ThreadIds : ~DiffersFromSolo(runs[t])

\* the threads hold lists of their own; thread 1 has returned from its second
\* run while thread 2 is in the loop of its run, and extract_keywords has been
\* called for Zeta after a call before it
C23_Witness ==
  /\ runs # <<>>
  /\ runs[1].list # runs[2].list
  /\ runs[1].status = "done"
  /\ runs[1].outcome = "returned"
  /\ runs[1].calls = 2
  /\ runs[2].status = "loop"
  /\ runs[2].seen # <<>>
  /\ fn_value # NoCall
  /\ fn_args.n = 2
  /\ fn_args.brand = Zeta
  /\ fn_value.value # <<>>

\* the mention at position i of the list the last live run stored
StoredAt(i) ==
  run_log.stored[i]

\* the last run was a live run
LiveRun ==
  run_log # NoCall /\ run_log.mode = "LIVE" /\ run_log.returned

\* the engine's sentiment backfill (line 171) fires for a mention that reaches
\* compute_kpis without a sentiment
EngineBackfills(i) ==
  ~Truthy(StoredAt(i).sentiment)

\* C24, as stated: before compute_kpis is invoked a mention has the label the
\* map holds for its position, and a mention the map has no label for is left
\* without a sentiment, so that the engine's backfill fires for exactly those.
C24_LeftUnset ==
  LiveRun =>
    \A i \in DOMAIN run_log.stored :
      /\ i \in DOMAIN run_log.sentiment_map
           => StoredAt(i).sentiment = run_log.sentiment_map[i]
      /\ i \notin DOMAIN run_log.sentiment_map
           => (StoredAt(i).sentiment.t = "absent" /\ EngineBackfills(i))

\* C24, amended: before compute_kpis is invoked a mention has the non-empty
\* label the map holds for its position, and a mention the map has no label
\* (or an empty one) for has the label analyze_sentiment_keywords gives its
\* text, set by the caller; the engine's backfill fires for no mention.
C24_CallerFallback ==
  LiveRun =>
    \A i \in DOMAIN run_log.stored :
      /\ Truthy(MapGet(run_log.sentiment_map, i))
           => StoredAt(i).sentiment = run_log.sentiment_map[i]
      /\ ~Truthy(MapGet(run_log.sentiment_map, i))
           => StoredAt(i).sentiment =
                Sym(analyze_sentiment_keywords(Get(run_log.temp_data[i].text, Str(<<>>))))
      /\ ~EngineBackfills(i)

\* a live run over two mentions, one with a label and one the map missed
C24_Witness ==
  /\ LiveRun
  /\ Len(run_log.stored) = 2
  /\ DOMAIN run_log.sentiment_map = {2}
  /\ run_log.sentiment_map[2] = Sym("negative")
  /\ StoredAt(1).sentiment = Sym("positive")
  /\ run_log.kpis = "returned"

\* the number of processed mentions whose mentioned_brands holds name
MentionsNaming(name) ==
  Cardinality({ k \in 1..Len(kept) : \E j \in DOMAIN NamesOf(Processed[k]) :
                                       NamesOf(Processed[k])[j] = name })

\* the number of (mention, distinct name) pairs
DistinctOccurrences ==
  SumSeq([k \in 1..Len(kept) |-> Cardinality(Range(NamesOf(Processed[k])))])

\* two quotients are the same number
SameRatio(a, b) ==
  a.num * b.den = b.num * a.den

\* C25: a processed mention adds exactly 1 to the counter of each distinct name
\* in its mentioned_brands and never more than 1 to any counter, so that the
\* share of a brand is the number of mentions naming it over the number of
\* (mention, name) pairs.
C25_OncePerMention ==
  (outcome = "returned" /\ kept # <<>>) =>
    \A i \in DOMAIN result.sov :
      SameRatio(result.sov[i],
                IF DistinctOccurrences > 0
                  THEN Ratio(MentionsNaming(result.all_brands[i]) * 100, DistinctOccurrences)
                  ELSE Zero)

\* the themes in the order of the claim, each with its keywords
ThemeOrder ==
  << [theme |-> "CSR/ESG", kws |-> theme_csr_kws],
     [theme |-> "Corporate", kws |-> theme_corporate_kws],
     [theme |-> "Partnership/Sponsorship", kws |-> theme_partnership_kws],
     [theme |-> "Product/Service", kws |-> theme_product_kws],
     [theme |-> "Legal/Risk", kws |-> theme_legal_kws] >>

\* the positions of ThemeOrder one of whose keywords is a substring of the
\* lower-cased text
ThemesMatching(text) ==
  { n \in DOMAIN ThemeOrder :
      \E i \in DOMAIN ThemeOrder[n].kws : Contains(Lower(text), ThemeOrder[n].kws[i]) }

EarliestTheme(text) ==
  IF ThemesMatching(text) = {} THEN "General News"
  ELSE ThemeOrder[CHOOSE n \in ThemesMatching(text) : \A m \in ThemesMatching(text) : n <= m].theme

\* C26: a processed mention whose theme was absent or empty has after the call
\* the earliest theme of the order CSR/ESG, Corporate, Partnership/Sponsorship,
\* Product/Service, Legal/Risk one of whose keywords is a substring of its
\* lower-cased text, and General News when there is none.
C26_ThemeOrder ==
  outcome = "returned" =>
    \A k \in 1..Len(kept) :
      (ProcessedOnEntry[k].theme.t = "absent" \/ ProcessedOnEntry[k].theme = Sym(""))
        /\ ProcessedOnEntry[k].text.t = "str"
        => Processed[k].theme = Sym(EarliestTheme(ProcessedOnEntry[k].text.s))

\* a mention without a theme whose text matches Legal/Risk first and CSR/ESG
\* second got CSR/ESG
C26_Witness ==
  /\ outcome = "returned"
  /\ Len(kept) = 1
  /\ ProcessedOnEntry[1].theme.t = "absent"
  /\ ProcessedOnEntry[1].text = Str(JoinWords(<<<<"f","r","a","u","d">>, <<"E","S","G">>>>))
  /\ Cardinality(ThemesMatching(ProcessedOnEntry[1].text.s)) = 2
  /\ Processed[1].theme = Sym("CSR/ESG")

\* the tokens that the filter of line 96 leaves of the text of the call
TokensOfCall ==
  FilterTokens(word_tokenize(Lower(fn_args.all_text)),
               DynamicStopWords(fn_args.brand, fn_args.competitors))

\* how often the word, or the pair of adjacent words, occurs in the tokens
UnigramCount(tokens, w) ==
  Cardinality({ i \in DOMAIN tokens : tokens[i] = w })

BigramCount(tokens, phrase) ==
  Cardinality({ i \in 1..(Len(tokens) - 1) : tokens[i] \o <<" ">> \o tokens[i + 1] = phrase })

\* the phrases extract_keywords counts: every unigram, and the bigrams that
\* occur at least twice
Candidates(tokens) ==
  Range(tokens)
    \cup { p \in Range(Bigrams(tokens)) : BigramCount(tokens, p) >= 2 }

CountOf(tokens, phrase) ==
  IF phrase \in Range(tokens) THEN UnigramCount(tokens, phrase) ELSE BigramCount(tokens, phrase)

\* the rank of a phrase in first-encountered order: the unigrams by their first
\* occurrence, then the bigrams by theirs
FirstSeen(tokens, phrase) ==
  IF phrase \in Range(tokens)
    THEN CHOOSE i \in DOMAIN tokens : tokens[i] = phrase /\ \A j \in 1..(i - 1) : tokens[j] # phrase
    ELSE Len(tokens) + (CHOOSE i \in 1..(Len(tokens) - 1) :
                          /\ Bigrams(tokens)[i] = phrase
                          /\ \A j \in 1..(i - 1) : Bigrams(tokens)[j] # phrase)

TopTenOf(tokens, value) ==
  /\ Len(value) <= 10
  /\ \A i \in DOMAIN value :
       /\ value[i].phrase \in Candidates(tokens)
       /\ value[i].count = CountOf(tokens, value[i].phrase)
       /\ \A p \in Candidates(tokens) \ { value[j].phrase : j \in DOMAIN value } :
            CountOf(tokens, p) <= value[i].count
  /\ \A i, j \in DOMAIN value :
       i < j => /\ value[i].count >= value[j].count
                /\ value[i].phrase # value[j].phrase
                /\ value[i].count = value[j].count
                     => FirstSeen(tokens, value[i].phrase) < FirstSeen(tokens, value[j].phrase)
  /\ \A p \in Range(Bigrams(tokens)) \ Range(tokens) :
       BigramCount(tokens, p) < 2 => \A i \in DOMAIN value : value[i].phrase # p

\* C27: extract_keywords returns at most 10 pairs, each a unigram or a bigram
\* occurring at least twice with its count, in non-increasing count order; no
\* such phrase that is left out has a higher count than a returned one; equal
\* counts come in first-encountered order (unigrams, then bigrams, each by
\* first occurrence); a bigram occurring once is never returned.
C27_TopTen ==
  ExtractCalled => TopTenOf(TokensOfCall, fn_value.value)

\* a call over more than ten phrases, one of them a bigram that occurs twice:
\* ten are returned, the bigram among them, and phrases are left out
C27_Witness ==
  /\ ExtractCalled
  /\ Cardinality(Candidates(TokensOfCall)) > 10
  /\ Len(fn_value.value) = 10
  /\ \E i \in DOMAIN fn_value.value :
       /\ fn_value.value[i].phrase \notin Range(TokensOfCall)
       /\ fn_value.value[i].count = 2
  /\ \E i \in DOMAIN fn_value.value : fn_value.value[i].count = 1

\* the response finished with STOP and its text parses
Succeeds(r) ==
  r.kind = "response" /\ r.finish = "STOP" /\ r.parses

\* a failure of another kind than a finish reason that is not STOP, a text
\* that is no JSON, or an error about JSON: it is retried after a sleep
Retried(r) ==
  r.kind = "error" /\ ~Contains(Lower(r.message), <<"j","s","o","n">>)

\* C28: the function makes at most 5 calls of the model; a call is followed by
\* another only when it failed otherwise than with a finish reason that is not
\* STOP or a JSON error, and then a sleep comes first, the sleeps doubling from
\* 1 second; what is returned is the id-to-sentiment map of the attempt that
\* succeeded, or the empty map when none did.
C28_RetryLoop ==
  llm # NoCall =>
    /\ Len(llm.log) <= 5
    /\ llm.status = "loop" => Len(llm.log) < 5
    /\ \A i \in 1..(Len(llm.log) - 1) : Retried(llm.log[i])
    /\ Len(llm.slept) = Cardinality({ i \in DOMAIN llm.log : Retried(llm.log[i]) })
    /\ \A i \in DOMAIN llm.slept : llm.slept[i] = 2 ^ (i - 1)
    /\ llm.status = "returned" =>
         llm.value = IF llm.log # <<>> /\ Succeeds(llm.log[Len(llm.log)])
                       THEN [id \in { llm.log[Len(llm.log)].items[k].id :
                                        k \in DOMAIN llm.log[Len(llm.log)].items } |->
                               (CHOOSE x \in { "positive", "negative", "mixed" } :
                                  \E k \in DOMAIN llm.log[Len(llm.log)].items :
                                    /\ llm.log[Len(llm.log)].items[k].id = id
                                    /\ llm.log[Len(llm.log)].items[k].sentiment = x)]
                       ELSE <<>>

\* the entry was written for the brand, time frame, competitor set and
\* industry of the request (brands compared without regard to case)
WrittenFor(found, request) ==
  /\ Lower(found.by.brand) = Lower(request.brand)
  /\ found.by.time_frame = request.time_frame
  /\ Range(found.by.competitors) = Range(request.competitors)
  /\ found.by.industry = request.industry

\* C29: fetch_all returns the cached result exactly when the cache holds an
\* entry written less than 900 seconds earlier by a call with the same brand,
\* time frame, competitor set and industry; otherwise it runs the scrapers and
\* stores their result with the current timestamp under the key of the
\* request.
C29_CacheHit ==
  fetch_log # NoCall =>
    /\ fetch_log.hit <=>
         /\ fetch_log.found # NoCall
         /\ fetch_log.at - fetch_log.found.ts < 900
         /\ WrittenFor(fetch_log.found, fetch_log.request)
    /\ fetch_log.hit => fetch_log.value = fetch_log.found.value
    /\ ~fetch_log.hit =>
         /\ fetch_log.value = RunScrapers(fetch_log.request)
         /\ fetch_log.key \in DOMAIN cache
         /\ cache[fetch_log.key].value = fetch_log.value
         /\ cache[fetch_log.key].ts = fetch_log.at

\* what compute_kpis does on the list the last run stored
KpisOfStored ==
  compute_kpis(run_log.stored, run_log.cfg.campaign_messages, run_log.cfg.brand,
               run_log.cfg.competitors, run_log.cfg.hours)

\* C30: after a run_smart_analysis call that returned, the session holds the
\* KPIs and the keywords computed from the mention list that call stored.
C30_SameRun ==
  (run_log # NoCall /\ run_log.returned) =>
    \E r \in { KpisOfStored } :
      /\ r.outcome = "returned"
      /\ session_state.full_data = r.data
      /\ session_state.kpis = r.result
      /\ session_state.top_keywords =
           List(extract_keywords(AllText(r.data), run_log.cfg.brand, run_log.cfg.competitors))

====
